---- MODULE Spec2Model ----
(***************************************************************************)
(* Model of the image conversion tools of RamdomPicAPI:                    *)
(*   scripts/convert_images.py    (command-line engine, "cli")             *)
(*   python/convert_images_gui.py (GUI engine, "gui")                      *)
(*                                                                         *)
(* SpecWriter : one call of atomic_save or of compress_to_target_size,     *)
(*              statement by statement, with failing file operations and   *)
(*              a hard process kill.                                       *)
(* SpecRun    : one run of process_folder over one directory.              *)
(* SpecMain   : main / run_conversion over the root and its subfolders.    *)
(* SpecConvert: one call of convert_to_avif, Pillow and ffmpeg backends.   *)
(* SpecRestart: a run on a directory a killed run has left, after the      *)
(*              start-up cleanup of the gui.                               *)
(* SpecStop   : stop_conversion interleaved with the pool path of the gui. *)
(* SpecNames  : an identifier from its allocation to the next scan.        *)
(***************************************************************************)
EXTENDS Integers, Sequences, FiniteSets, TLC

\* ------------------------------------------------------------------ bounds
MaxQuality == 3
MaxSize == 3

Qualities == 1..MaxQuality
Sizes == 1..MaxSize

\* ------------------------------------------------------------------- files
\* The content of one path.  k: "missing" (no file), "old" (the valid file the
\* path held before the call), "enc" (a complete encoding at quality q),
\* "partial" (a write that did not finish), "corrupt" (a finished write that
\* does not decode).
Missing == [k |-> "missing", q |-> 0]
Old == [k |-> "old", q |-> 0]
Partial == [k |-> "partial", q |-> 0]
Corrupt == [k |-> "corrupt", q |-> 0]
Enc(q) == [k |-> "enc", q |-> q]

\* Path.exists()
Exists(f) == f.k # "missing"

\* Image.open(path).verify() does not raise
Decodable(f) == f.k \in {"old", "enc"}

VARIABLES
  \* ---- SpecWriter: atomic_save / compress_to_target_size
  pc,            \* the statement the process is at
  entry,         \* the function that was called: "atomic_save" or "compress"
  wengine,       \* which file's compress_to_target_size runs: "cli" or "gui"
  dest,          \* content of output_path
  tmp,           \* content of <stem>.tmp<suffix> (atomic_save's temp_path)
  probe,         \* content of the compressor's scratch file
  sizeOf,        \* the encoder: quality -> size of the encoding
  target_size,   \* the byte ceiling of the call
  min_quality, max_quality,
  left, right, best_quality,
  q_save,        \* save_kwargs['quality'] of the running atomic_save
  as_ret,        \* atomic_save's return value: "none", "true", "false"
  ret,           \* compress_to_target_size's result: "none", "true", "false", "raised"
  dest0,         \* content of output_path when the call started
  faulted,       \* some encoder or file operation of the call raised or misbehaved
  cleanup_failed,\* an unlink of the temp artifact in a failure handler raised
  probes         \* number of probes of the quality search

VARIABLES
  \* ---- SpecRun: process_folder
  engine,               \* "cli": scripts/convert_images.py, "gui": python/convert_images_gui.py
  use_multiprocessing,  \* the use_multiprocessing argument of process_folder
  rpc,                  \* the statement process_folder is at
  dirf,                 \* the image files of the directory
  dir0,                 \* the image files of the directory when the run started
  used_names,           \* the NameRegistry: used_names
  task,                 \* the tasks of the run, by the source file of dir0
  should_stop,          \* self.should_stop of the gui
  stopped_running,      \* the tasks that were running when stop_conversion was called
  processed_count       \* processed_count of process_folder

rvars == <<engine, use_multiprocessing, rpc, dirf, dir0, used_names, task,
           should_stop, stopped_running, processed_count>>

VARIABLES
  \* ---- SpecMain: main (cli) / start_conversion and run_conversion (gui)
  mpc,           \* the statement main is at
  root,          \* IMAGES_DIR: what it is and what it holds
  folders,       \* the subfolders the loop of main has still to process
  processed,     \* the units process_folder was called on, in order
  registries,    \* the used_names each call of process_folder built
  touched,       \* the files process_folder has listed as image files
  modified,      \* the units in which process_folder changed files
  diagnostics    \* the number of error reports of the run

mvars == <<mpc, root, folders, processed, registries, touched, modified, diagnostics>>

VARIABLES
  \* ---- SpecConvert: one call of convert_to_avif
  cpc,           \* the statement convert_to_avif is at
  use_gpu,       \* the use_gpu argument
  use_ffmpeg,    \* the use_ffmpeg argument
  src,           \* the raster stored at image_path
  img,           \* the raster convert_to_avif holds (img)
  resized,       \* the raster was scaled down
  original_size, \* image_path.stat().st_size
  out_file,      \* content of output_path
  calls,         \* the calls of compress_to_target_size, in order
  crf_left,      \* the CRF values the re-encoding loop of ffmpeg has still to try
  cret           \* the return value: "none", "true", "false"

cvars == <<cpc, use_gpu, use_ffmpeg, src, img, resized, original_size, out_file, calls,
           crf_left, cret>>

VARIABLES
  \* ---- SpecStop: the orchestration thread and the stop handler of the gui
  opc,           \* the statement the orchestration thread is at
  hpc,           \* the statement stop_conversion is at
  stop_flag,     \* self.should_stop
  executor,      \* self.executor: "none", "live" or "shut" (shut down, not cleared)
  todo,          \* the tasks the submission loop has still to take
  futures,       \* the number of futures submitted
  collected,     \* the number of results the collection loop has handled
  exc,           \* the exception that left process_folder, or "none"
  run_result     \* how run_conversion ended: "none", "completed", "stopped", "error"

svars == <<opc, hpc, stop_flag, executor, todo, futures, collected, exc, run_result>>

VARIABLES
  \* ---- SpecNames: one identifier from its allocation to the next scan
  npc,                \* "config", "allocate", "classify", "done"
  nengine,            \* the engine: "cli" or "gui"
  RANDOM_NAME_LENGTH, \* the configured identifier length
  site,               \* the statement that asks for the identifier
  identifier,         \* the identifier that was produced
  accepted            \* the answer of the canonical-name test of the next scan

nvars == <<npc, nengine, RANDOM_NAME_LENGTH, site, identifier, accepted>>

wvars == <<pc, entry, wengine, dest, tmp, probe, sizeOf, target_size, min_quality,
           max_quality, left, right, best_quality, q_save, as_ret, ret, dest0,
           faulted, cleanup_failed, probes>>

vars == <<wvars, rvars, mvars, cvars, svars, nvars>>

\* ============================================================== SpecWriter

\* A raster: width, height, pixel layout (mode); ok: Image.open and load
\* succeed on the file that stores it.
Raster(w, h, mode, ok) == [w |-> w, h |-> h, mode |-> mode, ok |-> ok]
NoRaster == Raster(0, 0, "none", FALSE)

\* The content of output_path: k is "missing", "partial" (a write in
\* progress or abandoned) or "enc" (a complete encoding of a raster of the
\* given dimensions and mode, of the given size).
OutFile(k, w, h, mode, size) == [k |-> k, w |-> w, h |-> h, mode |-> mode, size |-> size]
OutMissing == OutFile("missing", 0, 0, "none", 0)
OutPartial == OutFile("partial", 0, 0, "none", 0)

\* convert_to_avif is not running.
ConvertIdle ==
  /\ cpc = "idle"
  /\ use_gpu = FALSE
  /\ use_ffmpeg = FALSE
  /\ src = NoRaster
  /\ img = NoRaster
  /\ resized = FALSE
  /\ original_size = 0
  /\ out_file = OutMissing
  /\ calls = <<>>
  /\ crf_left = 0
  /\ cret = "none"

\* No identifier is being followed.
NamesIdle ==
  /\ npc = "idle"
  /\ nengine = "cli"
  /\ RANDOM_NAME_LENGTH = 0
  /\ site = "none"
  /\ identifier = <<>>
  /\ accepted = FALSE

\* No gui conversion thread is running.
StopIdle ==
  /\ opc = "idle"
  /\ hpc = "idle"
  /\ stop_flag = FALSE
  /\ executor = "none"
  /\ todo = 0
  /\ futures = 0
  /\ collected = 0
  /\ exc = "none"
  /\ run_result = "none"

\* main is not running.
MainIdle ==
  /\ mpc = "idle"
  /\ root = [kind |-> "missing", own |-> [canon |-> FALSE, other |-> FALSE, text |-> FALSE, deep |-> FALSE], dirs |-> <<>>]
  /\ folders = {}
  /\ processed = <<>>
  /\ registries = <<>>
  /\ touched = {}
  /\ modified = {}
  /\ diagnostics = 0

\* size of the file at a path holding a complete encoding (Path.stat().st_size)
StatSize(f) == sizeOf[f.q]

\* No run of process_folder takes place.
RunIdle ==
  /\ engine = "cli"
  /\ use_multiprocessing = FALSE
  /\ rpc = "done"
  /\ dirf = {}
  /\ dir0 = {}
  /\ used_names = {}
  /\ task = <<>>
  /\ should_stop = FALSE
  /\ stopped_running = {}
  /\ processed_count = 0

InitWriter ==
  /\ RunIdle
  /\ MainIdle
  /\ ConvertIdle
  /\ StopIdle
  /\ NamesIdle
  /\ entry \in {"atomic_save", "compress"}
  /\ wengine \in {"cli", "gui"}
  /\ sizeOf \in [Qualities -> Sizes]
  /\ target_size \in Sizes
  /\ min_quality \in Qualities
  /\ max_quality \in Qualities
  /\ min_quality <= max_quality
  /\ dest \in {Missing, Old}
  /\ dest0 = dest
  /\ tmp = Missing
  /\ probe = Missing
  /\ left = min_quality
  /\ right = max_quality
  /\ best_quality = min_quality
  /\ q_save \in Qualities
  \* compress_to_target_size is only called on the file convert_to_avif has
  \* just saved at output_path
  /\ (entry = "compress" => q_save = min_quality /\ dest = Old)
  /\ (entry = "atomic_save" => /\ wengine = "cli"
                              /\ min_quality = max_quality
                              /\ min_quality = q_save
                              /\ target_size = MaxSize)
  /\ pc = IF entry = "compress" THEN "c_loop" ELSE "as_open"
  /\ as_ret = "none"
  /\ ret = "none"
  /\ faulted = FALSE
  /\ cleanup_failed = FALSE
  /\ probes = 0

\* ---- compress_to_target_size: the quality search

\* mid_quality = (left + right) // 2
Mid(l, r) == (l + r) \div 2

\* A comparison that rejects a size equal to the ceiling, for comparison with
\* FitsCeiling
FitsCeilingStrict(size, target) == size < target

\* file_size <= target_size
FitsCeiling(size, target) == size <= target

\* A search that moves below a fitting probe, for comparison with SearchStep
SearchStepLower(fits, l, r, mid, best) ==
  IF fits THEN [left |-> l, right |-> mid - 1, best |-> mid]
          ELSE [left |-> l, right |-> mid - 1, best |-> best]

\* The two branches after a probe that did not raise: a fitting probe records
\* mid as best and searches above it, an over-budget probe searches below it.
SearchStep(fits, l, r, mid, best) ==
  IF fits THEN [left |-> mid + 1, right |-> r, best |-> mid]
          ELSE [left |-> l, right |-> mid - 1, best |-> best]

\* if best_quality >= min_quality
ShouldSave(best, minq) == best >= minq

\* Where atomic_save's return continues
ReturnPc == IF entry = "compress" THEN "c_after" ELSE "done"

\* One iteration of `while left <= right`: encode at mid_quality to the scratch
\* file and compare its size with the ceiling; a raising probe counts as over
\* budget.  The cli keeps the scratch file <stem>_temp, the gui deletes its
\* <stem>_temp_test after every probe.
compress_probe ==
  /\ pc = "c_loop"
  /\ left <= right
  /\ LET mid_quality == Mid(left, right)
         s == SearchStep(FitsCeiling(sizeOf[mid_quality], target_size),
                         left, right, mid_quality, best_quality)
     IN \E raised \in BOOLEAN :
          IF raised
          THEN /\ right' = mid_quality - 1
               /\ UNCHANGED <<left, best_quality>>
               /\ faulted' = TRUE
               /\ \E p \in (IF wengine = "gui" THEN {Missing} ELSE {probe, Partial}) :
                    probe' = p
          ELSE /\ left' = s.left
               /\ right' = s.right
               /\ best_quality' = s.best
               /\ probe' = IF wengine = "gui" THEN Missing ELSE Enc(mid_quality)
               /\ UNCHANGED faulted
  /\ probes' = probes + 1
  /\ UNCHANGED rvars
  /\ UNCHANGED cvars
  /\ UNCHANGED svars
  /\ UNCHANGED nvars
  /\ UNCHANGED mvars
  /\ UNCHANGED <<pc, entry, wengine, dest, tmp, sizeOf, target_size, min_quality,
                 max_quality, q_save, as_ret, ret, dest0, cleanup_failed>>

\* The loop has ended: save at best_quality through atomic_save, or give up.
compress_search_done ==
  /\ pc = "c_loop"
  /\ left > right
  /\ IF ShouldSave(best_quality, min_quality)
     THEN /\ pc' = "as_open"
          /\ q_save' = best_quality
          /\ UNCHANGED ret
     ELSE /\ pc' = "done"
          /\ ret' = "false"
          /\ UNCHANGED q_save
  /\ UNCHANGED rvars
  /\ UNCHANGED cvars
  /\ UNCHANGED svars
  /\ UNCHANGED nvars
  /\ UNCHANGED mvars
  /\ UNCHANGED <<entry, wengine, dest, tmp, probe, sizeOf, target_size, min_quality,
                 max_quality, left, right, best_quality, as_ret, dest0, faulted,
                 cleanup_failed, probes>>

\* ---- atomic_save

\* img.save(temp_path) creates the temp file and starts writing it.
atomic_save_open ==
  /\ pc = "as_open"
  /\ \E raised \in BOOLEAN :
       IF raised
       THEN /\ pc' = "as_except"
            /\ faulted' = TRUE
            /\ UNCHANGED tmp
       ELSE /\ pc' = "as_write"
            /\ tmp' = Partial
            /\ UNCHANGED faulted
  /\ UNCHANGED rvars
  /\ UNCHANGED cvars
  /\ UNCHANGED svars
  /\ UNCHANGED nvars
  /\ UNCHANGED mvars
  /\ UNCHANGED <<entry, wengine, dest, probe, sizeOf, target_size, min_quality,
                 max_quality, left, right, best_quality, q_save, as_ret, ret, dest0,
                 cleanup_failed, probes>>

\* img.save(temp_path) finishes: a complete encoding, a file that does not
\* decode, or an exception that leaves the partial file behind.
atomic_save_write ==
  /\ pc = "as_write"
  /\ \E outcome \in {"ok", "corrupt", "raise"} :
       /\ tmp' = IF outcome = "ok" THEN Enc(q_save)
                 ELSE IF outcome = "corrupt" THEN Corrupt ELSE tmp
       /\ pc' = IF outcome = "raise" THEN "as_except" ELSE "as_verify"
       /\ faulted' = (faulted \/ outcome # "ok")
  /\ UNCHANGED rvars
  /\ UNCHANGED cvars
  /\ UNCHANGED svars
  /\ UNCHANGED nvars
  /\ UNCHANGED mvars
  /\ UNCHANGED <<entry, wengine, dest, probe, sizeOf, target_size, min_quality,
                 max_quality, left, right, best_quality, q_save, as_ret, ret, dest0,
                 cleanup_failed, probes>>

\* Image.open(temp_path).verify(); an invalid temp file is deleted and
\* atomic_save returns False.  An unlink that raises inside this handler
\* reaches the outer handler.
atomic_save_verify ==
  /\ pc = "as_verify"
  /\ IF Decodable(tmp)
     THEN /\ pc' = "as_exists"
          /\ UNCHANGED <<tmp, as_ret, cleanup_failed>>
     ELSE \E unlinked \in BOOLEAN :
            IF unlinked
            THEN /\ tmp' = Missing
                 /\ as_ret' = "false"
                 /\ pc' = ReturnPc
                 /\ UNCHANGED cleanup_failed
            ELSE /\ pc' = "as_except"
                 /\ cleanup_failed' = TRUE
                 /\ UNCHANGED <<tmp, as_ret>>
  /\ UNCHANGED rvars
  /\ UNCHANGED cvars
  /\ UNCHANGED svars
  /\ UNCHANGED nvars
  /\ UNCHANGED mvars
  /\ UNCHANGED <<entry, wengine, dest, probe, sizeOf, target_size, min_quality,
                 max_quality, left, right, best_quality, q_save, ret, dest0, faulted,
                 probes>>

\* if output_path.exists(): output_path.unlink()
UnlinkDest(d) == IF Exists(d) THEN Missing ELSE d

atomic_save_unlink_dest ==
  /\ pc = "as_exists"
  /\ \E raised \in (IF Exists(dest) THEN BOOLEAN ELSE {FALSE}) :
       IF raised
       THEN /\ pc' = "as_except"
            /\ faulted' = TRUE
            /\ UNCHANGED dest
       ELSE /\ pc' = "as_rename"
            /\ dest' = UnlinkDest(dest)
            /\ UNCHANGED faulted
  /\ UNCHANGED rvars
  /\ UNCHANGED cvars
  /\ UNCHANGED svars
  /\ UNCHANGED nvars
  /\ UNCHANGED mvars
  /\ UNCHANGED <<entry, wengine, tmp, probe, sizeOf, target_size, min_quality,
                 max_quality, left, right, best_quality, q_save, as_ret, ret, dest0,
                 cleanup_failed, probes>>

\* temp_path.rename(output_path); return True
atomic_save_rename ==
  /\ pc = "as_rename"
  /\ \E raised \in BOOLEAN :
       IF raised
       THEN /\ pc' = "as_except"
            /\ faulted' = TRUE
            /\ UNCHANGED <<dest, tmp, as_ret>>
       ELSE /\ pc' = ReturnPc
            /\ dest' = tmp
            /\ tmp' = Missing
            /\ as_ret' = "true"
            /\ UNCHANGED faulted
  /\ UNCHANGED rvars
  /\ UNCHANGED cvars
  /\ UNCHANGED svars
  /\ UNCHANGED nvars
  /\ UNCHANGED mvars
  /\ UNCHANGED <<entry, wengine, probe, sizeOf, target_size, min_quality,
                 max_quality, left, right, best_quality, q_save, ret, dest0,
                 cleanup_failed, probes>>

\* except Exception: delete the temp file if it exists (an unlink that raises
\* is swallowed) and return False.
atomic_save_except ==
  /\ pc = "as_except"
  /\ \E unlinked \in (IF Exists(tmp) THEN BOOLEAN ELSE {TRUE}) :
       /\ tmp' = IF unlinked THEN Missing ELSE tmp
       /\ cleanup_failed' = (cleanup_failed \/ ~unlinked)
  /\ as_ret' = "false"
  /\ pc' = ReturnPc
  /\ UNCHANGED rvars
  /\ UNCHANGED cvars
  /\ UNCHANGED svars
  /\ UNCHANGED nvars
  /\ UNCHANGED mvars
  /\ UNCHANGED <<entry, wengine, dest, probe, sizeOf, target_size, min_quality,
                 max_quality, left, right, best_quality, q_save, ret, dest0, faulted,
                 probes>>

\* ---- compress_to_target_size: after atomic_save returned
\* On True: final_size = output_path.stat().st_size, the cli deletes its
\* scratch file, and success is final_size <= target_size.  An exception in
\* these statements reaches the handler: the gui's handler passes, the cli's
\* handler unlinks the scratch file if it exists, outside any try, so an
\* unlink that raises there leaves the function as an exception ("raised").
\* Everything else returns (False, best_quality).
compress_after ==
  /\ pc = "c_after"
  /\ IF as_ret = "true"
     THEN \E raised \in BOOLEAN :
            \E handler_raised \in (IF raised /\ wengine = "cli" /\ Exists(probe)
                                   THEN BOOLEAN ELSE {FALSE}) :
              /\ ret' = IF handler_raised THEN "raised"
                        ELSE IF ~raised /\ FitsCeiling(StatSize(dest), target_size)
                        THEN "true" ELSE "false"
              /\ faulted' = (faulted \/ raised)
              /\ probe' = IF wengine = "cli" /\ ~handler_raised THEN Missing ELSE probe
     ELSE /\ ret' = "false"
          /\ UNCHANGED <<faulted, probe>>
  /\ pc' = "done"
  /\ UNCHANGED rvars
  /\ UNCHANGED cvars
  /\ UNCHANGED svars
  /\ UNCHANGED nvars
  /\ UNCHANGED mvars
  /\ UNCHANGED <<entry, wengine, dest, tmp, sizeOf, target_size, min_quality,
                 max_quality, left, right, best_quality, q_save, as_ret, dest0,
                 cleanup_failed, probes>>

\* A hard kill of the process between any two file operations.
Kill ==
  /\ pc \notin {"done", "killed"}
  /\ pc' = "killed"
  /\ UNCHANGED rvars
  /\ UNCHANGED cvars
  /\ UNCHANGED svars
  /\ UNCHANGED nvars
  /\ UNCHANGED mvars
  /\ UNCHANGED <<entry, wengine, dest, tmp, probe, sizeOf, target_size, min_quality,
                 max_quality, left, right, best_quality, q_save, as_ret, ret, dest0,
                 faulted, cleanup_failed, probes>>

NextWriter ==
  \/ compress_probe
  \/ compress_search_done
  \/ atomic_save_open
  \/ atomic_save_write
  \/ atomic_save_verify
  \/ atomic_save_unlink_dest
  \/ atomic_save_rename
  \/ atomic_save_except
  \/ compress_after
  \/ Kill

SpecWriter == InitWriter /\ [][NextWriter]_vars

\* ------------------------------------------------------ claims, SpecWriter

\* The encoder's output size never grows with quality.
NonIncreasing == \A a, b \in Qualities : a <= b => sizeOf[a] >= sizeOf[b]

\* The qualities of the searched range whose encoding meets the ceiling.
Fitting == {q \in min_quality..max_quality : sizeOf[q] <= target_size}

\* C1: when the process is killed during a save onto a destination that held
\* a valid file, the destination holds the prior valid file or a new complete
\* valid file: it is never missing and never partial.
C1_KilledDestinationValid ==
  (pc = "killed" /\ dest0 = Old) => Decodable(dest)

\* C2: when a step of atomic_save fails (and the cleanup of the temp file
\* itself does not fail), atomic_save returns False, the temp artifact is gone
\* and the destination holds exactly the file it held before the call.
C2_FailureLeavesDestination ==
  (as_ret = "false" /\ ~cleanup_failed) => (tmp = Missing /\ dest = dest0)

\* C3: when compress_to_target_size has returned, the destination is either
\* what it was before the call or an encoding whose size is at most the
\* ceiling.
C3_NoOverBudgetOverwrite ==
  (entry = "compress" /\ pc = "done") =>
     \/ dest = dest0
     \/ (dest.k = "enc" /\ sizeOf[dest.q] <= target_size)

\* C4: a reported success leaves a destination of size at most the ceiling
\* and a quality within [qMin, qMax]; a reported failure leaves a complete
\* decodable file at a destination that held one.
C4_SuccessWithinCeilingFailureDecodable ==
  (entry = "compress" /\ pc = "done") =>
     /\ ret = "true" => /\ dest.k = "enc"
                        /\ sizeOf[dest.q] <= target_size
                        /\ best_quality \in min_quality..max_quality
     /\ (ret = "false" /\ Decodable(dest0)) => Decodable(dest)

\* C5: with an encoder whose size is non-increasing in quality and whose
\* operations do not fail, a success returns the maximal quality of
\* [qMin, qMax] that meets the ceiling and has written it, and a failure
\* happens only when the encoding at qMin exceeds the ceiling.
C5_MaximalQualityNonIncreasing ==
  (entry = "compress" /\ pc = "done" /\ NonIncreasing /\ ~faulted) =>
     /\ ret \in {"true", "false"}
     /\ ret = "true" => /\ best_quality \in Fitting
                        /\ \A q \in Fitting : q <= best_quality
                        /\ dest = Enc(best_quality)
     /\ ret = "false" => sizeOf[min_quality] > target_size

\* C5 witness: a finished fault-free search over a range of three qualities
\* with a strictly shrinking encoder that succeeded above qMin.
C5_Witness ==
  /\ entry = "compress" /\ pc = "done" /\ NonIncreasing /\ ~faulted
  /\ ret = "true"
  /\ max_quality - min_quality >= 2
  /\ sizeOf[min_quality] > sizeOf[max_quality]
  /\ best_quality > min_quality
  /\ probes >= 2

\* ================================================================= SpecRun

\* ------------------------------------------------------------------ bounds
NameLength == 2     \* RANDOM_NAME_LENGTH, scaled down
MaxFiles == 2       \* image files in the directory when the run starts
NumWorkers == 2     \* max_workers of the ProcessPoolExecutor

\* ------------------------------------------------------------------- names
\* A filename stem is a sequence of characters.  "a" and "b" stand for the
\* characters that are lowercase letters or digits and also hexadecimal
\* digits, "A" for an uppercase hexadecimal digit; the stems <<"photo1">> and
\* <<"photo2">> stand for names of another length.
RECURSIVE SeqsOf(_, _)
SeqsOf(S, n) == IF n = 0 THEN {<<>>}
                ELSE {Append(x, c) : x \in SeqsOf(S, n - 1), c \in S}

\* chars = string.ascii_lowercase + string.digits
NameChars == {"a", "b"}

\* hex_chars = set('0123456789abcdef')
HexChars == {"a", "b"}

\* str.lower() on one character
Lower(c) == IF c = "A" THEN "a" ELSE c

\* The values generate_random_name() can return.
Ids == SeqsOf(NameChars, NameLength)

\* is_8digit_random(name)
is_8digit_random(name) ==
  /\ Len(name) = NameLength
  /\ \A i \in 1..Len(name) : name[i] \in NameChars

\* is_hash_name(name)
is_hash_name(name) ==
  /\ Len(name) = NameLength
  /\ \A i \in 1..Len(name) : Lower(name[i]) \in HexChars

\* The canonical-identifier test of the engine.
Canonical(e, name) == IF e = "cli" THEN is_8digit_random(name) ELSE is_hash_name(name)

\* The original_name of a gui task whose file needs a new name
NoName == <<>>

\* f"{original_name}": None is formatted as the text None
FormatName(name) == IF name = NoName THEN <<"None">> ELSE name

\* temp_name = f"_converting_{original_name}"
WorkStem(name) == <<"_converting_">> \o FormatName(name)

\* ------------------------------------------------------------------- files
\* An image file: stem and extension ("jpg": a SUPPORTED_FORMATS extension,
\* "avif": AVIF_EXT), big: st_size > MAX_FILE_SIZE, res: the short edge
\* ("ok": within MIN_SHORT_EDGE, "over": above it, "bad": Image.open raises),
\* h: the hash name of its content.
PathOf(f) == <<f.stem, f.ext>>

\* Path.exists() in the directory d
PathExists(d, path) == \E g \in d : PathOf(g) = path

\* Path.unlink() / the source side of Path.rename()
Remove(d, path) == {g \in d : PathOf(g) # path}

\* Writing a file to its path, replacing what was there
Put(d, f) == Remove(d, PathOf(f)) \cup {f}

\* Stems the directory can hold when the run starts: two canonical
\* identifiers and two names of another length.
CanonStems == {x \in Ids : \A i \in 1..(NameLength - 1) : x[i] = "a"}
InitStems == CanonStems \cup {<<"photo1">>, <<"photo2">>}
FirstId == CHOOSE x \in CanonStems : \A i \in 1..NameLength : x[i] = "a"

InitFiles ==
  [stem : InitStems, ext : {"jpg", "avif"}, big : BOOLEAN,
   res : {"ok", "over", "bad"}, h : CanonStems]

\* The files a directory can hold when the run starts.  Attributes the engine
\* never reads are fixed (the size and short edge of a file to convert, the
\* content hash under the cli's random names).
AllowedFiles(e) ==
  {f \in InitFiles :
     /\ f.ext = "jpg" => (~f.big /\ f.res = "ok" /\ f.h = FirstId)
     /\ e = "cli" => f.h = FirstId
     /\ f.big => f.res = "ok"}

\* The directories a run can start from: at most n image files, one per path.
RECURSIVE DirsUpTo(_, _)
DirsUpTo(e, n) ==
  IF n = 0 THEN {{}}
  ELSE LET prev == DirsUpTo(e, n - 1)
       IN prev \cup {d \cup {f} : <<d, f>> \in
                       {x \in prev \X AllowedFiles(e) : ~PathExists(x[1], PathOf(x[2]))}}

InitDirs(e) == DirsUpTo(e, MaxFiles)

\* ---------------------------------------------------------- classification
\* needs_resolution_adjustment(image_path): the cli answers True when the
\* image cannot be read, the gui answers False.
needs_resolution_adjustment(e, f) ==
  IF f.res = "bad" THEN e = "cli" ELSE f.res = "over"

\* A classification without the skip of conforming files, for comparison with
\* cli_classify
cli_classify_noskip(f) ==
  IF f.ext = "jpg" THEN "convert"
  ELSE IF f.big THEN "convert"
  ELSE IF ~is_8digit_random(f.stem) THEN "rename"
  ELSE "convert"

\* process_folder's classification loop of the cli: "skip", "convert"
\* (files_to_convert) or "rename" (files_to_rename).
cli_classify(f) ==
  LET needs_compression == f.big
      is_random_name == is_8digit_random(f.stem)
      checked == f.ext = "avif" /\ is_random_name /\ ~needs_compression
      needs_resolution_adjust ==
        IF checked THEN needs_resolution_adjustment("cli", f) ELSE FALSE
  IN IF checked /\ ~needs_resolution_adjust THEN "skip"
     ELSE IF f.ext = "jpg" THEN "convert"
     ELSE IF needs_compression \/ needs_resolution_adjust THEN "convert"
     ELSE IF ~is_random_name THEN "rename"
     ELSE "skip"

\* process_folder's task loop of the gui: "skip", or a task with
\* needs_conversion True ("convert") or False ("rename").
gui_classify(f) ==
  LET needs_conversion == f.ext = "jpg"
      is_random_name == is_hash_name(f.stem)
      needs_compression == f.big
      needs_resolution_adjust ==
        IF ~needs_conversion THEN needs_resolution_adjustment("gui", f) ELSE FALSE
  IN IF is_random_name
     THEN IF needs_conversion \/ needs_compression \/ needs_resolution_adjust
          THEN (IF needs_conversion THEN "convert" ELSE "rename")
          ELSE "skip"
     ELSE (IF needs_conversion THEN "convert" ELSE "rename")

\* The original_name the gui stores in the task
gui_original_name(f) == IF is_hash_name(f.stem) THEN f.stem ELSE NoName

classify(e, f) == IF e = "cli" THEN cli_classify(f) ELSE gui_classify(f)

\* A registry that starts empty, for comparison with InitialUsedNames
InitialUsedNamesNone(e, d) == {}

\* used_names after the scan: the stems that are canonical identifiers
InitialUsedNames(e, d) == {f.stem : f \in {g \in d : Canonical(e, g.stem)}}

\* The tasks of the run
NewTasks(e, d) ==
  [f \in {g \in d : classify(e, g) # "skip"} |->
     [kind |-> classify(e, f),
      name |-> IF e = "gui" THEN gui_original_name(f) ELSE NoName,
      st |-> "new",
      err |-> "none"]]

\* The writer is not running.
WriterIdle ==
  /\ pc = "done"
  /\ entry = "atomic_save"
  /\ wengine = "cli"
  /\ dest = Missing /\ tmp = Missing /\ probe = Missing /\ dest0 = Missing
  /\ sizeOf = [q \in Qualities |-> 1]
  /\ target_size = 1
  /\ min_quality = 1 /\ max_quality = 1
  /\ left = 1 /\ right = 1 /\ best_quality = 1 /\ q_save = 1
  /\ as_ret = "none" /\ ret = "none"
  /\ faulted = FALSE /\ cleanup_failed = FALSE
  /\ probes = 0

InitRun ==
  /\ WriterIdle
  /\ MainIdle
  /\ ConvertIdle
  /\ StopIdle
  /\ NamesIdle
  /\ engine \in {"cli", "gui"}
  /\ use_multiprocessing \in BOOLEAN
  /\ dirf \in InitDirs(engine)
  /\ dir0 = dirf
  /\ rpc = "scan"
  /\ used_names = {}
  /\ task = <<>>
  /\ should_stop = FALSE
  /\ stopped_running = {}
  /\ processed_count = 0

\* ------------------------------------------------------------- the workers
\* The tasks in the given states
InState(S) == {f \in DOMAIN task : task[f].st \in S}

ConvertTasks == {f \in DOMAIN task : task[f].kind = "convert"}
RenameTasks == {f \in DOMAIN task : task[f].kind = "rename"}

\* The stem of the path a conversion task writes to: the reserved temp_name
\* of the cli, the working name of the gui.
OutStem(e, t) == IF e = "cli" THEN t.name ELSE WorkStem(t.name)

\* convert_to_avif reads SPEED_GPU / SPEED_NORMAL before it saves anything:
\* the cli defines them, the gui module does not (NameError, caught, False).
SpeedDefined(e) == e = "cli"

\* The results a conversion can end with: success with a file at the output
\* path (still over the ceiling when the compressor failed, or within it), or
\* failure with or without a file left at the output path.  err is the cause
\* of a failure: "fault" when the source cannot be decoded, the encoder fails
\* or a file operation fails, "name" when the undefined name is read.
ConvertOutcomes(e) ==
  IF SpeedDefined(e)
  THEN [ok : {TRUE}, out : {TRUE}, big : BOOLEAN, err : {"none"}] \cup
       [ok : {FALSE}, out : BOOLEAN, big : {FALSE}, err : {"fault"}]
  ELSE [ok : {FALSE}, out : {FALSE}, big : {FALSE}, err : {"fault", "name"}]

\* The file a conversion of f leaves at the stem out
Output(f, out, big) ==
  [stem |-> out, ext |-> "avif", big |-> big, res |-> "ok", h |-> f.h]

\* The effect of one convert_to_avif(f, output_path) on the directory
Converted(d, f, out, o) == IF o.out THEN Put(d, Output(f, out, o.big)) ELSE d

\* A worker process of the pool takes a queued task.
worker_start(f) ==
  /\ task[f].st = "queued"
  /\ Cardinality(InState({"running"})) < NumWorkers
  /\ task' = [task EXCEPT ![f].st = "running"]
  /\ UNCHANGED <<engine, use_multiprocessing, should_stop, stopped_running, processed_count, rpc, dirf, dir0, used_names>>
  /\ UNCHANGED wvars
  /\ UNCHANGED cvars
  /\ UNCHANGED svars
  /\ UNCHANGED nvars
  /\ UNCHANGED mvars

\* convert_image_worker returns.
worker_finish(f) ==
  /\ task[f].st = "running"
  /\ \E o \in ConvertOutcomes(engine) :
       /\ dirf' = Converted(dirf, f, OutStem(engine, task[f]), o)
       /\ task' = [task EXCEPT ![f].st = IF o.ok THEN "ok" ELSE "fail", ![f].err = o.err]
  /\ UNCHANGED <<engine, use_multiprocessing, should_stop, stopped_running, processed_count, rpc, dir0, used_names>>
  /\ UNCHANGED wvars
  /\ UNCHANGED cvars
  /\ UNCHANGED svars
  /\ UNCHANGED nvars
  /\ UNCHANGED mvars

\* ------------------------------------------------- process_folder, the cli
\* The scan, the registry and the classification; the run ends here when
\* there is nothing to process.
cli_scan ==
  /\ engine = "cli"
  /\ rpc = "scan"
  /\ used_names' = InitialUsedNames("cli", dirf)
  /\ task' = NewTasks("cli", dirf)
  /\ rpc' = IF DOMAIN task' = {} THEN "done"
            ELSE IF use_multiprocessing /\ \E f \in DOMAIN task' : task'[f].kind = "convert"
                 THEN "allocate"
                 ELSE "rename"
  /\ UNCHANGED <<engine, use_multiprocessing, should_stop, stopped_running, processed_count, dirf, dir0>>
  /\ UNCHANGED wvars
  /\ UNCHANGED cvars
  /\ UNCHANGED svars
  /\ UNCHANGED nvars
  /\ UNCHANGED mvars

\* Candidates accepted without looking at used_names, for comparison with
\* FreeNames
FreeNamesAny(used) == Ids

\* candidate not in used_names
FreeNames(used) == Ids \ used

\* One file of files_to_convert gets its temp_name: a drawn candidate that is
\* not in used_names is reserved; when every draw of the max_attempts is in
\* used_names the file is reported and left out of conversion_tasks.
cli_allocate(f) ==
  /\ engine = "cli"
  /\ rpc = "allocate"
  /\ task[f].kind = "convert"
  /\ task[f].st = "new"
  /\ \/ \E candidate \in FreeNames(used_names) :
          /\ used_names' = used_names \cup {candidate}
          /\ task' = [task EXCEPT ![f].name = candidate, ![f].st = "named"]
     \/ /\ Ids \cap used_names # {}
        /\ task' = [task EXCEPT ![f].st = "alloc_failed"]
        /\ UNCHANGED used_names
  /\ UNCHANGED <<engine, use_multiprocessing, should_stop, stopped_running, processed_count, rpc, dirf, dir0>>
  /\ UNCHANGED wvars
  /\ UNCHANGED cvars
  /\ UNCHANGED svars
  /\ UNCHANGED nvars
  /\ UNCHANGED mvars

\* Every conversion task is submitted to the pool.
cli_submit ==
  /\ engine = "cli"
  /\ rpc = "allocate"
  /\ \A f \in ConvertTasks : task[f].st # "new"
  /\ task' = [f \in DOMAIN task |->
                IF task[f].st = "named" THEN [task[f] EXCEPT !.st = "queued"] ELSE task[f]]
  /\ rpc' = "collect"
  /\ UNCHANGED <<engine, use_multiprocessing, should_stop, stopped_running, processed_count, dirf, dir0, used_names>>
  /\ UNCHANGED wvars
  /\ UNCHANGED cvars
  /\ UNCHANGED svars
  /\ UNCHANGED nvars
  /\ UNCHANGED mvars

\* as_completed has yielded every future.
cli_collected ==
  /\ engine = "cli"
  /\ rpc = "collect"
  /\ \A f \in ConvertTasks : task[f].st \in {"ok", "fail", "alloc_failed"}
  /\ rpc' = "results"
  /\ UNCHANGED <<engine, use_multiprocessing, should_stop, stopped_running, processed_count, dirf, dir0, used_names, task>>
  /\ UNCHANGED wvars
  /\ UNCHANGED cvars
  /\ UNCHANGED svars
  /\ UNCHANGED nvars
  /\ UNCHANGED mvars

\* A release on success as well, for comparison with Release
ReleaseAlways(success, used, name) == used \ {name}

\* used_names.discard(temp_name) on failure only
Release(success, used, name) == IF success THEN used ELSE used \ {name}

\* One entry of conversion_results: on success the source is deleted, on
\* failure the output is deleted and the name released.
cli_process_result(f) ==
  /\ engine = "cli"
  /\ rpc = "results"
  /\ task[f].st \in {"ok", "fail"}
  /\ LET success == task[f].st = "ok" IN
       /\ dirf' = IF success THEN Remove(dirf, PathOf(f))
                  ELSE Remove(dirf, <<task[f].name, "avif">>)
       /\ used_names' = Release(success, used_names, task[f].name)
       /\ task' = [task EXCEPT ![f].st = IF success THEN "done_ok" ELSE "done_fail"]
  /\ processed_count' = processed_count + 1
  /\ UNCHANGED <<engine, use_multiprocessing, should_stop, stopped_running, rpc, dir0>>
  /\ UNCHANGED wvars
  /\ UNCHANGED cvars
  /\ UNCHANGED svars
  /\ UNCHANGED nvars
  /\ UNCHANGED mvars

\* The results are processed: on to files_to_rename.
cli_results_done ==
  /\ engine = "cli"
  /\ rpc = "results"
  /\ InState({"ok", "fail"}) = {}
  /\ rpc' = "rename"
  /\ UNCHANGED <<engine, use_multiprocessing, should_stop, stopped_running, processed_count, dirf, dir0, used_names, task>>
  /\ UNCHANGED wvars
  /\ UNCHANGED cvars
  /\ UNCHANGED svars
  /\ UNCHANGED nvars
  /\ UNCHANGED mvars

\* new_name not in used_names and not new_path.exists()
RenameTargets(used, d) == {n \in Ids : n \notin used /\ ~PathExists(d, <<n, "avif">>)}

\* One file of files_to_rename: renamed to a drawn name that is neither in
\* used_names nor on disk, or reported when every draw is rejected.
cli_rename(f) ==
  /\ engine = "cli"
  /\ rpc = "rename"
  /\ task[f].kind = "rename"
  /\ task[f].st = "new"
  /\ \/ \E new_name \in RenameTargets(used_names, dirf) :
          /\ dirf' = Put(Remove(dirf, PathOf(f)), [f EXCEPT !.stem = new_name])
          /\ used_names' = used_names \cup {new_name}
          /\ task' = [task EXCEPT ![f].name = new_name, ![f].st = "renamed"]
          /\ processed_count' = processed_count + 1
     \/ /\ RenameTargets(used_names, dirf) # Ids
        /\ task' = [task EXCEPT ![f].st = "rename_failed"]
        /\ UNCHANGED <<dirf, used_names, processed_count>>
  /\ UNCHANGED <<engine, use_multiprocessing, should_stop, stopped_running, rpc, dir0>>
  /\ UNCHANGED wvars
  /\ UNCHANGED cvars
  /\ UNCHANGED svars
  /\ UNCHANGED nvars
  /\ UNCHANGED mvars

\* img_file.rename(new_path) raises: nothing catches the exception in
\* process_folder or in main, the program ends.
cli_rename_raises(f) ==
  /\ engine = "cli"
  /\ rpc = "rename"
  /\ task[f].kind = "rename"
  /\ task[f].st = "new"
  /\ RenameTargets(used_names, dirf) # {}
  /\ task' = [task EXCEPT ![f].st = "raised", ![f].err = "fault"]
  /\ rpc' = "aborted"
  /\ UNCHANGED <<engine, use_multiprocessing, should_stop, stopped_running, processed_count, dirf, dir0,
                 used_names>>
  /\ UNCHANGED wvars
  /\ UNCHANGED cvars
  /\ UNCHANGED svars
  /\ UNCHANGED nvars
  /\ UNCHANGED mvars

\* process_folder returns.
cli_done ==
  /\ engine = "cli"
  /\ rpc = "rename"
  /\ \A f \in RenameTasks : task[f].st # "new"
  /\ rpc' = "done"
  /\ UNCHANGED <<engine, use_multiprocessing, should_stop, stopped_running, processed_count, dirf, dir0, used_names, task>>
  /\ UNCHANGED wvars
  /\ UNCHANGED cvars
  /\ UNCHANGED svars
  /\ UNCHANGED nvars
  /\ UNCHANGED mvars

\* ------------------------------------------------- process_folder, the gui
\* The scan, the registry and the task list; with several tasks and
\* multiprocessing the pool is used, otherwise the tasks run one by one.
gui_scan ==
  /\ engine = "gui"
  /\ rpc = "scan"
  /\ used_names' = InitialUsedNames("gui", dirf)
  /\ task' = NewTasks("gui", dirf)
  /\ rpc' = IF DOMAIN task' = {} THEN "done"
            ELSE IF use_multiprocessing /\ Cardinality(DOMAIN task') > 1
                 THEN "submit"
                 ELSE "sequential"
  /\ UNCHANGED <<engine, use_multiprocessing, should_stop, stopped_running, processed_count, dirf, dir0>>
  /\ UNCHANGED wvars
  /\ UNCHANGED cvars
  /\ UNCHANGED svars
  /\ UNCHANGED nvars
  /\ UNCHANGED mvars

\* A task with needs_conversion is submitted with its working path.
gui_submit(f) ==
  /\ engine = "gui"
  /\ rpc = "submit"
  /\ ~should_stop
  /\ task[f].kind = "convert"
  /\ task[f].st = "new"
  /\ task' = [task EXCEPT ![f].st = "queued"]
  /\ UNCHANGED <<engine, use_multiprocessing, should_stop, stopped_running, processed_count, rpc, dirf, dir0, used_names>>
  /\ UNCHANGED wvars
  /\ UNCHANGED cvars
  /\ UNCHANGED svars
  /\ UNCHANGED nvars
  /\ UNCHANGED mvars

\* A task without needs_conversion, in either loop: the file is renamed to
\* the hash name of its content, or deleted when a file of that name exists.
gui_rename(f) ==
  /\ engine = "gui"
  /\ rpc \in {"submit", "sequential"}
  /\ ~should_stop
  /\ task[f].kind = "rename"
  /\ task[f].st = "new"
  /\ LET hash_name == f.h
         duplicate == PathExists(dirf, <<hash_name, "avif">>) IN
       /\ dirf' = IF duplicate THEN Remove(dirf, PathOf(f))
                  ELSE Put(Remove(dirf, PathOf(f)), [f EXCEPT !.stem = hash_name])
       /\ used_names' = IF duplicate THEN used_names ELSE used_names \cup {hash_name}
       /\ task' = [task EXCEPT ![f].st = IF duplicate THEN "deleted" ELSE "renamed"]
  /\ processed_count' = processed_count + 1
  /\ UNCHANGED <<engine, use_multiprocessing, should_stop, stopped_running, rpc, dir0>>
  /\ UNCHANGED wvars
  /\ UNCHANGED cvars
  /\ UNCHANGED svars
  /\ UNCHANGED nvars
  /\ UNCHANGED mvars

\* hash_name or the rename raises in the rename branch of either loop: the
\* exception is caught and logged.
gui_rename_raises(f) ==
  /\ engine = "gui"
  /\ rpc \in {"submit", "sequential"}
  /\ ~should_stop
  /\ task[f].kind = "rename"
  /\ task[f].st = "new"
  /\ task' = [task EXCEPT ![f].st = "rename_failed", ![f].err = "fault"]
  /\ UNCHANGED <<engine, use_multiprocessing, should_stop, stopped_running, processed_count, rpc, dirf, dir0,
                 used_names>>
  /\ UNCHANGED wvars
  /\ UNCHANGED cvars
  /\ UNCHANGED svars
  /\ UNCHANGED nvars
  /\ UNCHANGED mvars

\* The submission loop is over, or left at should_stop: on to as_completed.
gui_submitted ==
  /\ engine = "gui"
  /\ rpc = "submit"
  /\ IF should_stop THEN TRUE ELSE InState({"new"}) = {}
  /\ rpc' = "collect"
  /\ UNCHANGED <<engine, use_multiprocessing, should_stop, stopped_running, processed_count, dirf, dir0, used_names, task>>
  /\ UNCHANGED wvars
  /\ UNCHANGED cvars
  /\ UNCHANGED svars
  /\ UNCHANGED nvars
  /\ UNCHANGED mvars

\* What the orchestrator does with the result of converting f to the stem
\* out: on success the output gets its hash name (or is deleted as a
\* duplicate) and the source is deleted, on failure the output is deleted.
GuiResult(d, used, f, out, success) ==
  LET hash_name == f.h
      output_path == <<out, "avif">>
      duplicate == PathExists(d, <<hash_name, "avif">>)
      produced == CHOOSE g \in d : PathOf(g) = output_path
      finald == IF duplicate THEN Remove(d, output_path)
                ELSE Put(Remove(d, output_path), [produced EXCEPT !.stem = hash_name])
  IN IF success
     THEN [dirf |-> Remove(finald, PathOf(f)),
           used_names |-> IF duplicate THEN used ELSE used \cup {hash_name}]
     ELSE [dirf |-> Remove(d, output_path), used_names |-> used]

\* One completed future of the pool.
gui_process_result(f) ==
  /\ engine = "gui"
  /\ rpc = "collect"
  /\ ~should_stop
  /\ task[f].st \in {"ok", "fail"}
  /\ LET success == task[f].st = "ok"
         r == GuiResult(dirf, used_names, f, WorkStem(task[f].name), success) IN
       /\ dirf' = r.dirf
       /\ used_names' = r.used_names
       /\ task' = [task EXCEPT ![f].st = IF success THEN "done_ok" ELSE "done_fail"]
  /\ processed_count' = IF task[f].st = "ok" THEN processed_count + 1 ELSE processed_count
  /\ UNCHANGED <<engine, use_multiprocessing, should_stop, stopped_running, rpc, dir0>>
  /\ UNCHANGED wvars
  /\ UNCHANGED cvars
  /\ UNCHANGED svars
  /\ UNCHANGED nvars
  /\ UNCHANGED mvars

\* future.cancel(): a pending future becomes cancelled, any other is left as
\* it is.
CancellableAny(st) == st \in {"queued", "running"}

Cancellable(st) == st = "queued"

\* The tasks after future.cancel() on every future that is not done
Cancelled(t) ==
  [f \in DOMAIN t |-> IF Cancellable(t[f].st) THEN [t[f] EXCEPT !.st = "cancelled"] ELSE t[f]]

\* The futures as_completed has not yielded to the loop body yet
Unfinished == InState({"queued", "running"})

\* The futures submitted to the pool
Futures == {f \in ConvertTasks : task[f].st # "new"}

\* The as_completed loop ends: every future is done and processed; or, with
\* should_stop set, the first future that is yielded makes the loop cancel
\* the futures that are not done and break, its result unprocessed.
gui_collected ==
  /\ engine = "gui"
  /\ rpc = "collect"
  /\ IF should_stop
     THEN ~(Futures # {} /\ Futures \subseteq Unfinished)
     ELSE InState({"queued", "running", "ok", "fail"}) = {}
  /\ task' = IF should_stop THEN Cancelled(task) ELSE task
  /\ rpc' = "done"
  /\ UNCHANGED <<engine, use_multiprocessing, should_stop, stopped_running, processed_count, dirf, dir0, used_names>>
  /\ UNCHANGED wvars
  /\ UNCHANGED cvars
  /\ UNCHANGED svars
  /\ UNCHANGED nvars
  /\ UNCHANGED mvars

\* One task with needs_conversion in the single-process loop:
\* convert_to_avif is called directly and its result handled at once.
gui_seq_convert(f) ==
  /\ engine = "gui"
  /\ rpc = "sequential"
  /\ ~should_stop
  /\ task[f].kind = "convert"
  /\ task[f].st = "new"
  /\ \E o \in ConvertOutcomes("gui") :
       LET out == WorkStem(task[f].name)
           r == GuiResult(Converted(dirf, f, out, o), used_names, f, out, o.ok) IN
         /\ dirf' = r.dirf
         /\ used_names' = r.used_names
         /\ task' = [task EXCEPT ![f].st = IF o.ok THEN "done_ok" ELSE "done_fail",
                                 ![f].err = o.err]
         /\ processed_count' = IF o.ok THEN processed_count + 1 ELSE processed_count
  /\ UNCHANGED <<engine, use_multiprocessing, should_stop, stopped_running, rpc, dir0>>
  /\ UNCHANGED wvars
  /\ UNCHANGED cvars
  /\ UNCHANGED svars
  /\ UNCHANGED nvars
  /\ UNCHANGED mvars

\* The single-process loop is over.
gui_seq_done ==
  /\ engine = "gui"
  /\ rpc = "sequential"
  /\ IF should_stop THEN TRUE ELSE InState({"new"}) = {}
  /\ rpc' = "done"
  /\ UNCHANGED <<engine, use_multiprocessing, should_stop, stopped_running, processed_count, dirf, dir0, used_names, task>>
  /\ UNCHANGED wvars
  /\ UNCHANGED cvars
  /\ UNCHANGED svars
  /\ UNCHANGED nvars
  /\ UNCHANGED mvars

\* stop_conversion, called from the gui thread while process_folder works on
\* its tasks: should_stop is set and every future that is not done is
\* cancelled.
stop_conversion ==
  /\ engine = "gui"
  /\ rpc \in {"submit", "collect", "sequential"}
  /\ ~should_stop
  /\ should_stop' = TRUE
  /\ stopped_running' = InState({"running"})
  /\ task' = Cancelled(task)
  /\ UNCHANGED <<engine, use_multiprocessing, rpc, dirf, dir0, used_names, processed_count>>
  /\ UNCHANGED wvars
  /\ UNCHANGED cvars
  /\ UNCHANGED svars
  /\ UNCHANGED nvars
  /\ UNCHANGED mvars

NextRun ==
  \/ cli_scan
  \/ \E f \in DOMAIN task : cli_allocate(f)
  \/ cli_submit
  \/ \E f \in DOMAIN task : worker_start(f)
  \/ \E f \in DOMAIN task : worker_finish(f)
  \/ cli_collected
  \/ \E f \in DOMAIN task : cli_process_result(f)
  \/ cli_results_done
  \/ \E f \in DOMAIN task : cli_rename(f)
  \/ \E f \in DOMAIN task : cli_rename_raises(f)
  \/ cli_done
  \/ gui_scan
  \/ \E f \in DOMAIN task : gui_submit(f)
  \/ \E f \in DOMAIN task : gui_rename(f)
  \/ \E f \in DOMAIN task : gui_rename_raises(f)
  \/ gui_submitted
  \/ \E f \in DOMAIN task : gui_process_result(f)
  \/ gui_collected
  \/ \E f \in DOMAIN task : gui_seq_convert(f)
  \/ gui_seq_done
  \/ stop_conversion

SpecRun == InitRun /\ [][NextRun]_vars

\* ======================================================== claims, SpecRun
\* Conversion tasks that hold a reserved identifier of the cli
Holding == {f \in ConvertTasks :
              task[f].st \in {"named", "queued", "running", "ok", "fail", "done_ok"}}

\* Conversion tasks that have been given an identifier at any time in the run
Named == {f \in ConvertTasks : task[f].name # NoName}

\* Tasks a worker pool holds: queued or running
InFlight == InState({"queued", "running"})

\* C6: in a cli run (random naming policy), the conversion tasks given to
\* the worker pool have pairwise-distinct identifiers, and none of these
\* identifiers is the identifier of a file the directory held when the run
\* started.
C6_ConcurrentIdentifiersDistinct ==
  engine = "cli" =>
    /\ \A f \in Named : \A g \in Named : f # g => task[f].name # task[g].name
    /\ \A f \in Named : \A g \in dir0 : g.stem # task[f].name

\* Two conversions run at the same time in a directory that already holds a
\* file with a canonical identifier.
C6_Witness ==
  /\ engine = "cli"
  /\ Cardinality(InState({"running"})) >= 2
  /\ \E g \in dir0 : Canonical("cli", g.stem)

\* C7: no two tasks that are queued or running at the same time write to the
\* same output path, the working path of the gui included.
C7_InFlightPathsDistinct ==
  \A f \in InFlight : \A g \in InFlight :
    f # g => OutStem(engine, task[f]) # OutStem(engine, task[g])

\* C8: in a cli run the identifier of every conversion task is in used_names
\* before any task is submitted, stays there until the task's result has been
\* processed and afterwards unless the task failed, and while it is there no
\* other task (conversion or rename) is given it.
C8_RegistryHoldsReservedNames ==
  engine = "cli" =>
    /\ \A f \in Holding : task[f].name \in used_names
    /\ InState({"queued", "running", "ok", "fail"}) # {} =>
         \A f \in ConvertTasks : task[f].st # "new"
    /\ \A f \in Holding : \A g \in DOMAIN task :
         (f # g /\ task[g].st \notin {"new", "alloc_failed", "rename_failed", "done_fail"})
           => task[g].name # task[f].name

\* One result has been processed as a success and another as a failure.
C8_Witness ==
  /\ engine = "cli"
  /\ InState({"done_ok"}) # {}
  /\ InState({"done_fail"}) # {}

\* Every file has the target codec, a canonical identifier, a size within the
\* ceiling and a short edge within the trigger threshold.
AllFine(e, d) ==
  \A f \in d : f.ext = "avif" /\ Canonical(e, f.stem) /\ ~f.big /\ f.res = "ok"

\* C9: a run over a directory whose files all have the target codec, a
\* canonical identifier, a size within the ceiling and a short edge within
\* the threshold has no task and never changes the directory.
C9_CanonicalDirectoryUnchanged ==
  AllFine(engine, dir0) => (dirf = dir0 /\ DOMAIN task = {})

\* A run over such a directory with two files is over.
C9_Witness ==
  /\ rpc = "done"
  /\ Cardinality(dir0) >= 2
  /\ AllFine(engine, dir0)

\* The files the claim C10 is about: a non-canonical codec, or the target
\* codec with a canonical identifier and a size or short edge over its limit.
MustReencode(e, f) ==
  \/ f.ext = "jpg"
  \/ f.ext = "avif" /\ Canonical(e, f.stem) /\ (f.big \/ f.res = "over")

\* C10: a file with a non-canonical codec, and a target-codec file with a
\* canonical identifier whose size or short edge violates its limit, is
\* handled as a conversion task (never as a rename), and when the run is over
\* it has been through the conversion pipeline (or no name could be reserved
\* for it, which is reported).
C10_ViolationsAreReencoded ==
  rpc # "scan" =>
    \A f \in dir0 : MustReencode(engine, f) =>
      /\ f \in DOMAIN task
      /\ task[f].kind = "convert"
      /\ rpc = "done" => task[f].st \in {"done_ok", "done_fail", "alloc_failed"}

\* C11: a file is handled by a rename alone only if it has the target codec,
\* a non-canonical identifier, a size within the ceiling and a short edge that
\* is not above the trigger threshold.
C11_RenameOnlyWhenWithinLimits ==
  \A f \in DOMAIN task :
    task[f].kind = "rename" =>
      /\ f.ext = "avif"
      /\ ~Canonical(engine, f.stem)
      /\ ~f.big
      /\ f.res # "over"

\* C12: a target-codec file whose dimensions cannot be read is scheduled for
\* re-encoding: it is neither skipped nor given a rename task.
C12_UnreadableIsReencoded ==
  rpc # "scan" =>
    \A f \in dir0 : (f.ext = "avif" /\ f.res = "bad") =>
      (f \in DOMAIN task /\ task[f].kind = "convert")

\* C13: in a gui run (content-derived names) that was not stopped, two
\* sources whose encodings are byte-identical (same content hash), neither
\* hit by a decode, encode or file fault, end with exactly one target-codec
\* file of that content, both sources removed and both tasks successful.
C13_IdenticalOutputsCollapse ==
  (engine = "gui" /\ rpc = "done" /\ ~should_stop) =>
    \A f \in ConvertTasks : \A g \in ConvertTasks :
      (f # g /\ f.h = g.h /\ task[f].err # "fault" /\ task[g].err # "fault") =>
        /\ Cardinality({x \in dirf : x.ext = "avif" /\ x.h = f.h}) = 1
        /\ f \notin dirf /\ g \notin dirf
        /\ task[f].st = "done_ok" /\ task[g].st = "done_ok"

\* C14: when process_folder of the gui has ended after a stop signal, every
\* task that was running when the signal arrived is still running or has
\* completed with its result processed by the orchestrator, and no other task
\* is left queued or running.
C14_StopCompletesRunningTasks ==
  (engine = "gui" /\ should_stop /\ rpc = "done") =>
    /\ \A f \in stopped_running : task[f].st \in {"running", "done_ok", "done_fail"}
    /\ \A f \in DOMAIN task \ stopped_running : task[f].st \notin {"queued", "running"}

\* The workers of the pool return: a call of convert_image_worker that has
\* started ends.
SpecRunFair == SpecRun /\ WF_vars(\E f \in DOMAIN task : worker_finish(f))

\* The moves of one task between the states of its future: queued to running
\* or cancelled, running to finished (ok, fail), finished to processed.
TaskStep(a, b) ==
  /\ a = "queued" => b \in {"running", "cancelled"}
  /\ a = "running" => b \in {"ok", "fail"}
  /\ b = "running" => a = "queued"
  /\ b = "cancelled" => a = "queued"
  /\ a = "ok" => b = "done_ok"
  /\ a = "fail" => b = "done_fail"
  /\ a \notin {"cancelled", "done_ok", "done_fail"}

\* C15: a task of the pool moves only from queued to running and from running
\* to done or failed, or from queued to cancelled: a running task is never
\* cancelled, a task is cancelled only while queued, a finished or cancelled
\* task never runs again, and every task that runs ends done or failed.
C15_TaskStateMachine ==
  /\ [][\A f \in DOMAIN task \cap DOMAIN task' :
          task'[f].st # task[f].st => TaskStep(task[f].st, task'[f].st)]_vars
  /\ <>[](InState({"running"}) = {})

\* After a stop signal one task is cancelled and a task that was running at
\* the signal has finished.
C15_Witness ==
  /\ should_stop
  /\ InState({"cancelled"}) # {}
  /\ \E f \in stopped_running : task[f].st \in {"ok", "fail"}

\* C16: a failure of one file's task never ends the batch: process_folder is
\* never left by an exception, so that the other tasks of the directory and
\* the later directories are still processed.
C16_FailureNeverAbortsBatch ==
  \A f \in DOMAIN task : task[f].err = "fault" => rpc # "aborted"

\* ================================================ claims, SpecWriter (cont.)
\* What convert_to_avif returns once compress_to_target_size has returned: it
\* opens output_path to read the saved size and returns True, or the open
\* raises and the handler returns False.
ConvertReturns(d) == Decodable(d)

\* No quality of the range meets the ceiling.
Unattainable == \A q \in min_quality..max_quality : sizeOf[q] > target_size

\* C17: when no quality of the range meets the ceiling, the conversion is
\* still reported as a success and a complete decodable file is at the
\* destination once the compressor has returned (the case of a temp file that
\* could not be deleted set aside).
C17_UnattainableKeepsDestination ==
  (entry = "compress" /\ pc = "done" /\ Unattainable /\ ~cleanup_failed) =>
    (ConvertReturns(dest) /\ Decodable(dest))

\* ================================================ claims, SpecRun (cont.)
\* The identifier a successful conversion of f ends at: the reserved random
\* name of the cli, the content hash of the gui.
FinalStem(f) == IF engine = "cli" THEN task[f].name ELSE f.h

\* C18: when a run that was not stopped is over, every conversion of a source
\* of another codec that was executed and met no decode, encode or file fault
\* is a success: a target-codec file with a short edge within the threshold
\* is at the task's identifier and the source is removed.
C18_ConvertEndsAtIdentifier ==
  (rpc = "done" /\ ~should_stop) =>
    \A f \in ConvertTasks :
      (f.ext = "jpg" /\ task[f].err # "fault" /\ task[f].st \notin {"new", "alloc_failed"}) =>
        /\ task[f].st = "done_ok"
        /\ f \notin dirf
        /\ \E x \in dirf : x.ext = "avif" /\ x.stem = FinalStem(f) /\ x.res = "ok"

\* C19: when a run that received no stop signal is over, every task has been
\* executed and has ended as done or failed, with multiprocessing and without.
C19_EveryTaskExecuted ==
  (rpc = "done" /\ ~should_stop) =>
    \A f \in DOMAIN task :
      task[f].st \in {"done_ok", "done_fail", "renamed", "deleted", "rename_failed",
                      "alloc_failed"}

OneFilePerStem(d) == \A f \in d : \A g \in d : f.stem = g.stem => f = g

\* C21: in a run that starts from a directory with at most one file per
\* identifier, the directory holds at most one file per identifier at every
\* instant: no two files in it share the same filename stem.
C21_OneFilePerIdentifier ==
  OneFilePerStem(dir0) => OneFilePerStem(dirf)

\* ================================================================ SpecMain

\* ------------------------------------------------------------------ bounds
MaxFolders == 2     \* subfolders of IMAGES_DIR

\* ----------------------------------------------------------- the directory
\* The processing units: IMAGES_DIR itself and its immediate subfolders.
Root == 0
FolderNames == 1..MaxFolders

\* The canonical identifier number n, of the given length
RECURSIVE IdOf(_, _)
IdOf(n, len) ==
  IF len = 0 THEN <<>>
  ELSE Append(IdOf(n \div 2, len - 1), IF n % 2 = 0 THEN "a" ELSE "b")

\* What a folder holds directly: canon, a target-codec file with a canonical
\* identifier; other, a file photo1.JPG; text, a file notes.txt; deep, a
\* subfolder of its own that holds an image file.
Contents == [canon : BOOLEAN, other : BOOLEAN, text : BOOLEAN, deep : BOOLEAN]
NoContents == [canon |-> FALSE, other |-> FALSE, text |-> FALSE, deep |-> FALSE]

\* The directory entries: kind is "file" or "dir", ext the suffix as written.
Entry(kind, stem, ext) == [kind |-> kind, stem |-> stem, ext |-> ext]

\* The files the unit u holds directly
FilesOf(u, c) ==
  (IF c.canon THEN {Entry("file", IdOf(u, NameLength), "avif")} ELSE {}) \cup
  (IF c.other THEN {Entry("file", <<"photo1">>, "JPG")} ELSE {}) \cup
  (IF c.text THEN {Entry("file", <<"notes">>, "txt")} ELSE {})

\* The entry of subfolder k in IMAGES_DIR; the first one has a name that ends
\* like an image file.
DirEntry(k) == Entry("dir", <<"dir">> \o IdOf(k, NameLength), IF k = 1 THEN "jpg" ELSE "")

\* The subfolder of a subfolder
DeepEntry == Entry("dir", <<"deep">>, "")

\* folder_path.iterdir()
Listing(r, u) ==
  IF u = Root
  THEN FilesOf(Root, r.own) \cup {DirEntry(k) : k \in DOMAIN r.dirs}
  ELSE FilesOf(u, r.dirs[u]) \cup (IF r.dirs[u].deep THEN {DeepEntry} ELSE {})

\* f.suffix.lower()
suffix_lower(ext) == IF ext = "JPG" THEN "jpg" ELSE ext

\* f.is_file() and (f.suffix.lower() in SUPPORTED_FORMATS or
\* f.suffix.lower() == AVIF_EXT)
IsImageFile(e) == e.kind = "file" /\ suffix_lower(e.ext) \in {"jpg", "avif"}

\* f.is_dir()
is_dir(e) == e.kind = "dir"

\* The states IMAGES_DIR can be in when the program starts.
Roots ==
  {[kind |-> k, own |-> NoContents, dirs |-> <<>>] : k \in {"missing", "file"}} \cup
  UNION {[kind : {"dir"}, own : {c \in Contents : ~c.deep}, dirs : [D -> Contents]] :
           D \in SUBSET FolderNames}

InitMain ==
  /\ WriterIdle
  /\ ConvertIdle
  /\ StopIdle
  /\ NamesIdle
  /\ engine \in {"cli", "gui"}
  /\ use_multiprocessing = FALSE
  /\ rpc = "done"
  /\ dirf = {}
  /\ dir0 = {}
  /\ used_names = {}
  /\ task = <<>>
  /\ should_stop = FALSE
  /\ stopped_running = {}
  /\ processed_count = 0
  /\ mpc = "start"
  /\ root \in Roots
  /\ folders = {}
  /\ processed = <<>>
  /\ registries = <<>>
  /\ touched = {}
  /\ modified = {}
  /\ diagnostics = 0

\* The variables of process_folder that main leaves alone
runrest == <<use_multiprocessing, rpc, dirf, dir0, used_names, task, stopped_running,
             processed_count>>

\* ------------------------------------------------------------------- main
\* if not IMAGES_DIR.exists(): report and return
main_exists ==
  /\ mpc = "start"
  /\ IF root.kind = "missing"
     THEN /\ diagnostics' = diagnostics + 1
          /\ mpc' = "fatal"
     ELSE /\ mpc' = "list"
          /\ UNCHANGED diagnostics
  /\ UNCHANGED <<root, folders, processed, registries, touched, modified>>
  /\ UNCHANGED <<engine, should_stop, runrest>>
  /\ UNCHANGED wvars
  /\ UNCHANGED cvars
  /\ UNCHANGED svars
  /\ UNCHANGED nvars

\* A list that is never taken as empty, for comparison with NoFolders
NeverNoFolders(fs) == FALSE

\* if not folders
NoFolders(fs) == fs = {}

\* direct_image_files and folders: IMAGES_DIR is one unit when it holds an
\* image file directly; otherwise its subfolders are the units, and when
\* there is none the run is reported and ends.  iterdir raises when
\* IMAGES_DIR is not a directory.
main_list ==
  /\ mpc = "list"
  /\ IF root.kind # "dir"
     THEN /\ mpc' = "aborted"
          /\ diagnostics' = diagnostics + 1
          /\ UNCHANGED folders
     ELSE LET direct_image_files == {e \in Listing(root, Root) : IsImageFile(e)}
              fs == {k \in DOMAIN root.dirs : is_dir(DirEntry(k))}
          IN IF direct_image_files # {}
             THEN /\ mpc' = "root_unit"
                  /\ UNCHANGED <<folders, diagnostics>>
             ELSE IF NoFolders(fs)
                  THEN /\ mpc' = "fatal"
                       /\ diagnostics' = diagnostics + 1
                       /\ UNCHANGED folders
                  ELSE /\ mpc' = "loop"
                       /\ folders' = fs
                       /\ UNCHANGED diagnostics
  /\ UNCHANGED <<root, processed, registries, touched, modified>>
  /\ UNCHANGED <<engine, should_stop, runrest>>
  /\ UNCHANGED wvars
  /\ UNCHANGED cvars
  /\ UNCHANGED svars
  /\ UNCHANGED nvars

\* A registry carried over from the call before, for comparison with
\* FreshRegistry
CarriedRegistry(prev) == prev

\* used_names: Set[str] = set()
FreshRegistry(prev) == {}

\* The names the calls of process_folder so far have registered
Registered == UNION {registries[v] : v \in DOMAIN registries}

\* One call process_folder(u): it lists the image files u holds directly,
\* returns at once when there is none, builds its registry from their stems
\* and works on them; next is where main continues when the call returns.
\* An exception that leaves process_folder ends the run.
process_folder(u, next) ==
  LET all_image_files == {e \in Listing(root, u) : IsImageFile(e)} IN
    /\ processed' = Append(processed, u)
    /\ IF all_image_files = {}
       THEN /\ mpc' = next
            /\ UNCHANGED <<registries, touched, modified, diagnostics>>
       ELSE /\ registries' =
                 (u :> (FreshRegistry(Registered) \cup
                          InitialUsedNames(engine, all_image_files))) @@ registries
            /\ touched' = touched \cup {<<u, e>> : e \in all_image_files}
            /\ \E changed \in BOOLEAN :
                 modified' = IF changed THEN modified \cup {u} ELSE modified
            /\ \E raised \in BOOLEAN :
                 IF raised
                 THEN /\ mpc' = "aborted"
                      /\ diagnostics' = diagnostics + 1
                 ELSE /\ mpc' = next
                      /\ UNCHANGED diagnostics

\* process_folder(IMAGES_DIR, ...)
main_process_root ==
  /\ mpc = "root_unit"
  /\ process_folder(Root, "finish")
  /\ UNCHANGED <<root, folders>>
  /\ UNCHANGED <<engine, should_stop, runrest>>
  /\ UNCHANGED wvars
  /\ UNCHANGED cvars
  /\ UNCHANGED svars
  /\ UNCHANGED nvars

\* for folder in folders: process_folder(folder, ...); the gui leaves the
\* loop when should_stop is set.
main_process_folder(k) ==
  /\ mpc = "loop"
  /\ k \in folders
  /\ ~should_stop
  /\ process_folder(k, "loop")
  /\ folders' = folders \ {k}
  /\ UNCHANGED root
  /\ UNCHANGED <<engine, should_stop, runrest>>
  /\ UNCHANGED wvars
  /\ UNCHANGED cvars
  /\ UNCHANGED svars
  /\ UNCHANGED nvars

\* The loop over the folders is over.
main_loop_end ==
  /\ mpc = "loop"
  /\ folders = {} \/ should_stop
  /\ mpc' = "finish"
  /\ UNCHANGED <<root, folders, processed, registries, touched, modified, diagnostics>>
  /\ UNCHANGED <<engine, should_stop, runrest>>
  /\ UNCHANGED wvars
  /\ UNCHANGED cvars
  /\ UNCHANGED svars
  /\ UNCHANGED nvars

\* The closing report: stopped (gui, should_stop) or complete.
main_finish ==
  /\ mpc = "finish"
  /\ mpc' = IF should_stop THEN "stopped" ELSE "done"
  /\ UNCHANGED <<root, folders, processed, registries, touched, modified, diagnostics>>
  /\ UNCHANGED <<engine, should_stop, runrest>>
  /\ UNCHANGED wvars
  /\ UNCHANGED cvars
  /\ UNCHANGED svars
  /\ UNCHANGED nvars

\* stop_conversion of the gui while run_conversion is at work
main_stop_conversion ==
  /\ engine = "gui"
  /\ mpc \in {"list", "root_unit", "loop"}
  /\ ~should_stop
  /\ should_stop' = TRUE
  /\ UNCHANGED mvars
  /\ UNCHANGED <<engine, runrest>>
  /\ UNCHANGED wvars
  /\ UNCHANGED cvars
  /\ UNCHANGED svars
  /\ UNCHANGED nvars

NextMain ==
  \/ main_exists
  \/ main_list
  \/ main_process_root
  \/ \E k \in FolderNames : main_process_folder(k)
  \/ main_loop_end
  \/ main_finish
  \/ main_stop_conversion

SpecMain == InitMain /\ [][NextMain]_vars

\* ======================================================== claims, SpecMain
\* IMAGES_DIR holds an image file directly.
HoldsImageFile == root.own.canon \/ root.own.other

\* The run has ended.
MainEnded == mpc \in {"fatal", "done", "stopped", "aborted"}

\* C22: when IMAGES_DIR does not exist, or holds neither image files nor
\* subfolders, process_folder is never called: no file is listed for a task,
\* no file is changed, and the run ends with exactly one error report and
\* without the closing report of a complete run.
C22_FatalRootStopsBeforeTasks ==
  (root.kind = "missing" \/ (root.kind = "dir" /\ ~HoldsImageFile /\ DOMAIN root.dirs = {})) =>
    /\ processed = <<>>
    /\ touched = {}
    /\ modified = {}
    /\ mpc \notin {"root_unit", "loop", "finish", "done"}
    /\ MainEnded => (mpc = "fatal" /\ diagnostics = 1)

\* A run on an existing IMAGES_DIR that holds only a text file has ended.
C22_Witness ==
  /\ mpc = "fatal"
  /\ root.kind = "dir"
  /\ root.own.text
  /\ diagnostics = 1

\* The units process_folder was called on
ProcessedUnits == {processed[i] : i \in 1..Len(processed)}

\* C26: when IMAGES_DIR holds an image file directly, no unit but IMAGES_DIR
\* is ever processed and only files directly in it are listed, and a run that
\* ends complete has processed it exactly once; otherwise only immediate
\* subfolders are processed, none twice, each with a registry built from the
\* stems of its own files only, only files directly in a subfolder are
\* listed, and a run that ends complete (neither stopped nor ended by an
\* exception) has processed every immediate subfolder.
C26_RootOrSubfoldersAsUnits ==
  root.kind = "dir" =>
    IF HoldsImageFile
    THEN /\ processed \in {<<>>, <<Root>>}
         /\ \A t \in touched : t[1] = Root /\ t[2] \in FilesOf(Root, root.own)
         /\ mpc = "done" => processed = <<Root>>
    ELSE /\ ProcessedUnits \subseteq DOMAIN root.dirs
         /\ Len(processed) = Cardinality(ProcessedUnits)
         /\ \A u \in DOMAIN registries :
              registries[u] \subseteq {e.stem : e \in FilesOf(u, root.dirs[u])}
         /\ \A t \in touched :
              t[1] \in DOMAIN root.dirs /\ t[2] \in FilesOf(t[1], root.dirs[t[1]])
         /\ mpc = "done" => ProcessedUnits = DOMAIN root.dirs

\* A complete run over two subfolders that each hold a file with a canonical
\* identifier, one of them with a subfolder of its own.
C26_Witness ==
  /\ mpc = "done"
  /\ ~HoldsImageFile
  /\ Len(processed) >= 2
  /\ \E u \in DOMAIN registries : \E v \in DOMAIN registries :
       u # v /\ registries[u] # {} /\ registries[v] # {}
  /\ \E u \in DOMAIN root.dirs : root.dirs[u].deep

\* ============================================================= SpecConvert

\* ------------------------------------------------------------------ bounds
MaxEdge == 5        \* the largest width or height of a source raster

\* ----------------------------------------------- configuration, scaled down
MAX_FILE_SIZE == 1
MIN_SHORT_EDGE == 3
TARGET_SHORT_EDGE == 2
MIN_QUALITY == 1
MAX_QUALITY == 3

\* The literal 50 of max_quality=min(MAX_QUALITY, 50)
RetryCap == 2

\* The CRF values of the re-encoding loop of ffmpeg: ['28', '32', '36', '40']
CrfValues == 4

Edges == 1..MaxEdge

\* The pixel layouts (img.mode): "P" is a palette without transparency, "I"
\* stands for every other layout without alpha.
Modes == {"RGB", "RGBA", "CMYK", "P", "L", "LA", "I"}

\* The layout has an alpha channel.
HasAlpha(mode) == mode \in {"RGBA", "LA"}

\* The rasters image_path can hold; one file cannot be decoded.
Sources ==
  {Raster(w, h, m, TRUE) : w \in Edges, h \in Edges, m \in Modes} \cup
  {Raster(1, 1, "RGB", FALSE)}

InitConvert ==
  /\ WriterIdle
  /\ MainIdle
  /\ StopIdle
  /\ NamesIdle
  /\ engine \in {"cli", "gui"}
  /\ use_multiprocessing = FALSE
  /\ rpc = "done"
  /\ dirf = {}
  /\ dir0 = {}
  /\ used_names = {}
  /\ task = <<>>
  /\ should_stop = FALSE
  /\ stopped_running = {}
  /\ processed_count = 0
  /\ cpc = "start"
  /\ use_gpu \in BOOLEAN
  /\ use_ffmpeg \in BOOLEAN
  \* effective_use_ffmpeg = use_gpu and ffmpeg_available; the gui passes False
  /\ use_ffmpeg => (use_gpu /\ engine = "cli")
  /\ src \in Sources
  /\ img = NoRaster
  /\ resized = FALSE
  /\ original_size = 0
  /\ out_file = OutMissing
  /\ calls = <<>>
  /\ crf_left = 0
  /\ cret = "none"

\* ------------------------------------------------------------- the raster
\* min(width, height)
ShortEdge(r) == IF r.w <= r.h THEN r.w ELSE r.h
LongEdge(r) == IF r.w <= r.h THEN r.h ELSE r.w

\* if short_edge > MIN_SHORT_EDGE
NeedsResize(r) == ShortEdge(r) > MIN_SHORT_EDGE

\* int(x * scale_ratio) with scale_ratio = TARGET_SHORT_EDGE / short_edge in
\* floating point: the integer part of the exact product, or one less when
\* the exact product is an integer and the rounded product falls below it.
Scaled(x, short) ==
  LET p == x * TARGET_SHORT_EDGE
  IN IF p % short = 0 THEN {p \div short, (p \div short) - 1} ELSE {p \div short}

\* new_width if new_width % 2 == 0 else new_width + 1
Even(n) == IF n % 2 = 0 THEN n ELSE n + 1

\* The layouts img.convert is asked for: CMYK to RGB, P to RGBA, L and LA to
\* RGB, any other to RGB.
ConvertMode(mode) ==
  IF mode \in {"RGB", "RGBA"} THEN mode
  ELSE IF mode = "CMYK" THEN "RGB"
  ELSE IF mode = "P" THEN "RGBA"
  ELSE IF mode \in {"L", "LA"} THEN "RGB"
  ELSE "RGB"

\* The mode step of the engine: the gui has none.
NormalizedMode(e, mode) == IF e = "cli" THEN ConvertMode(mode) ELSE mode

\* --------------------------------------------------------- convert_to_avif
crest == <<use_gpu, use_ffmpeg, src>>

\* The return of convert_to_avif
Return(value) ==
  /\ cpc' = "done"
  /\ cret' = value

\* if use_ffmpeg and check_ffmpeg_available(): the ffmpeg backend is tried
\* first (cli only); otherwise, and in the gui, Pillow.
convert_start ==
  /\ cpc = "start"
  /\ \E available \in BOOLEAN :
       cpc' = IF engine = "cli" /\ use_ffmpeg /\ available THEN "ff_open" ELSE "open"
  /\ UNCHANGED <<img, resized, original_size, out_file, calls, crf_left, cret, crest>>
  /\ UNCHANGED <<wvars, rvars, mvars, svars, nvars>>

\* convert_to_avif_with_ffmpeg: the size of the source is read and the scale
\* filter computed, both dimensions rounded up to even.  A source that cannot
\* be opened makes the function return False: Pillow is tried.
ffmpeg_open ==
  /\ cpc = "ff_open"
  /\ IF ~src.ok
     THEN /\ cpc' = "open"
          /\ UNCHANGED <<img, resized>>
     ELSE /\ cpc' = "ff_start"
          /\ IF NeedsResize(src)
             THEN \E nw \in Scaled(src.w, ShortEdge(src)), nh \in Scaled(src.h, ShortEdge(src)) :
                    /\ img' = Raster(Even(nw), Even(nh), src.mode, TRUE)
                    /\ resized' = TRUE
             ELSE /\ img' = src
                  /\ resized' = FALSE
  /\ UNCHANGED <<original_size, out_file, calls, crf_left, cret, crest>>
  /\ UNCHANGED <<wvars, rvars, mvars, svars, nvars>>

\* subprocess.run(cmd): ffmpeg -y opens output_path and writes to it.
ffmpeg_start ==
  /\ cpc = "ff_start"
  /\ out_file' = OutPartial
  /\ cpc' = "ff_run"
  /\ UNCHANGED <<img, resized, original_size, calls, crf_left, cret, crest>>
  /\ UNCHANGED <<wvars, rvars, mvars, svars, nvars>>

\* ffmpeg ends.  On success (return code 0, output_path exists) the file is
\* the encoding of the scaled raster in yuv420p, of some size; a file over
\* MAX_FILE_SIZE is re-encoded.  On failure the function returns False and
\* Pillow is tried, whatever ffmpeg left at output_path.
ffmpeg_end ==
  /\ cpc = "ff_run"
  /\ \/ \E size \in Sizes :
          /\ out_file' = OutFile("enc", img.w, img.h, "RGB", size)
          /\ UNCHANGED <<img, resized>>
          /\ IF size > MAX_FILE_SIZE
             THEN /\ cpc' = "ff_crf"
                  /\ crf_left' = CrfValues
                  /\ UNCHANGED cret
             ELSE /\ Return("true")
                  /\ UNCHANGED crf_left
     \/ /\ \E left_behind \in {OutPartial, OutMissing} : out_file' = left_behind
        /\ cpc' = "open"
        /\ img' = NoRaster
        /\ resized' = FALSE
        /\ UNCHANGED <<crf_left, cret>>
  /\ UNCHANGED <<original_size, calls, crest>>
  /\ UNCHANGED <<wvars, rvars, mvars, svars, nvars>>

\* for crf_value in [...]: subprocess.run(cmd_crf) writes to output_path
\* again; cmd_crf has no scale filter.
ffmpeg_crf_start ==
  /\ cpc = "ff_crf"
  /\ crf_left > 0
  /\ out_file' = OutPartial
  /\ cpc' = "ff_crf_run"
  /\ UNCHANGED <<img, resized, original_size, calls, crf_left, cret, crest>>
  /\ UNCHANGED <<wvars, rvars, mvars, svars, nvars>>

\* One re-encoding ends: with return code 0 the file is the encoding of the
\* source raster at its own dimensions and the loop ends when it is within
\* MAX_FILE_SIZE; otherwise the next CRF value is tried.
ffmpeg_crf_end ==
  /\ cpc = "ff_crf_run"
  /\ crf_left' = crf_left - 1
  /\ \/ \E size \in Sizes :
          /\ out_file' = OutFile("enc", src.w, src.h, "RGB", size)
          /\ IF size <= MAX_FILE_SIZE THEN Return("true")
             ELSE /\ cpc' = "ff_crf"
                  /\ UNCHANGED cret
     \/ /\ \E left_behind \in {OutPartial, OutMissing} : out_file' = left_behind
        /\ cpc' = "ff_crf"
        /\ UNCHANGED cret
  /\ UNCHANGED <<img, resized, original_size, calls, crest>>
  /\ UNCHANGED <<wvars, rvars, mvars, svars, nvars>>

\* The loop has tried every CRF value: return True.
ffmpeg_crf_done ==
  /\ cpc = "ff_crf"
  /\ crf_left = 0
  /\ Return("true")
  /\ UNCHANGED <<img, resized, original_size, out_file, calls, crf_left, crest>>
  /\ UNCHANGED <<wvars, rvars, mvars, svars, nvars>>

\* with Image.open(image_path) as img (and img.load(), exif_transpose): a
\* source that cannot be decoded raises, the handler returns False.
convert_open ==
  /\ cpc = "open"
  /\ IF src.ok
     THEN /\ img' = src
          /\ cpc' = "resize"
          /\ UNCHANGED cret
     ELSE /\ Return("false")
          /\ UNCHANGED img
  /\ UNCHANGED <<resized, original_size, out_file, calls, crf_left, crest>>
  /\ UNCHANGED <<wvars, rvars, mvars, svars, nvars>>

\* if short_edge > MIN_SHORT_EDGE: img = img.resize((new_width, new_height))
convert_resize ==
  /\ cpc = "resize"
  /\ IF NeedsResize(img)
     THEN \E nw \in Scaled(img.w, ShortEdge(img)), nh \in Scaled(img.h, ShortEdge(img)) :
            /\ img' = Raster(nw, nh, img.mode, TRUE)
            /\ resized' = TRUE
     ELSE UNCHANGED <<img, resized>>
  /\ cpc' = "mode"
  /\ UNCHANGED <<original_size, out_file, calls, crf_left, cret, crest>>
  /\ UNCHANGED <<wvars, rvars, mvars, svars, nvars>>

\* if img.mode not in ('RGB', 'RGBA'): img = img.convert(...)
convert_mode ==
  /\ cpc = "mode"
  /\ img' = [img EXCEPT !.mode = NormalizedMode(engine, img.mode)]
  /\ cpc' = "speed"
  /\ UNCHANGED <<resized, original_size, out_file, calls, crf_left, cret, crest>>
  /\ UNCHANGED <<wvars, rvars, mvars, svars, nvars>>

\* speed = SPEED_GPU if use_gpu else SPEED_NORMAL (a NameError in the gui,
\* caught: return False), then original_size = image_path.stat().st_size
convert_speed ==
  /\ cpc = "speed"
  /\ IF SpeedDefined(engine)
     THEN /\ \E size \in Sizes : original_size' = size
          /\ cpc' = "save"
          /\ UNCHANGED cret
     ELSE /\ Return("false")
          /\ UNCHANGED original_size
  /\ UNCHANGED <<img, resized, out_file, calls, crf_left, crest>>
  /\ UNCHANGED <<wvars, rvars, mvars, svars, nvars>>

\* The branch after the first save: "source" (resized and larger than the
\* source: compress to original_size), "ceiling" (over MAX_FILE_SIZE: compress
\* to MAX_FILE_SIZE) or "none".
NeedsCompression(was_resized, file_size, source_size) ==
  IF was_resized /\ file_size > source_size THEN "source"
  ELSE IF file_size > MAX_FILE_SIZE THEN "ceiling"
  ELSE "none"

\* What an atomic_save that returns False can leave at output_path: the file
\* that was there, or nothing (the destination is unlinked before the rename).
AfterFailedSave(o) == {o, OutMissing}

\* atomic_save(img, output_path, quality=DEFAULT_QUALITY) and
\* file_size = output_path.stat().st_size
convert_save ==
  /\ cpc = "save"
  /\ \/ \E file_size \in Sizes :
          /\ out_file' = OutFile("enc", img.w, img.h, img.mode, file_size)
          /\ cpc' = LET b == NeedsCompression(resized, file_size, original_size)
                    IN IF b = "source" THEN "compress_source"
                       ELSE IF b = "ceiling" THEN "compress_ceiling"
                       ELSE "verify"
          /\ UNCHANGED cret
     \/ /\ \E left_behind \in AfterFailedSave(out_file) : out_file' = left_behind
        /\ Return("false")
  /\ UNCHANGED <<img, resized, original_size, calls, crf_left, crest>>
  /\ UNCHANGED <<wvars, rvars, mvars, svars, nvars>>

\* What one call compress_to_target_size(img, output_path, target, ...) ends
\* with: success and an encoding of img within the target at output_path, or failure
\* with output_path unchanged, overwritten by an encoding over the target, or
\* missing.
CompressOutcomes(o, r, target) ==
  {[success |-> TRUE, out |-> OutFile("enc", r.w, r.h, r.mode, s)] :
     s \in {x \in Sizes : x <= target}} \cup
  {[success |-> FALSE, out |-> OutFile("enc", r.w, r.h, r.mode, s)] :
     s \in {x \in Sizes : x > target}} \cup
  {[success |-> FALSE, out |-> x] : x \in AfterFailedSave(o)}

\* One call of compress_to_target_size, recorded in calls
Compress(target, minq, maxq, next_ok, next_fail) ==
  \E r \in CompressOutcomes(out_file, img, target) :
    /\ out_file' = r.out
    /\ calls' = Append(calls, [target |-> target, min_quality |-> minq,
                               max_quality |-> maxq, success |-> r.success])
    /\ cpc' = IF r.success THEN next_ok ELSE next_fail

\* A retry whatever the first call returned, for comparison with ShouldRetry
AlwaysRetry(success) == TRUE

\* if success: ... else: the more aggressive compression
ShouldRetry(success) == ~success

\* min(MAX_QUALITY, 50)
NarrowedMax == IF MAX_QUALITY <= RetryCap THEN MAX_QUALITY ELSE RetryCap

\* The resized raster encoded larger than the source:
\* compress_to_target_size(img, output_path, original_size, speed=speed)
convert_compress_source ==
  /\ cpc = "compress_source"
  /\ \E r \in CompressOutcomes(out_file, img, original_size) :
       /\ out_file' = r.out
       /\ calls' = Append(calls, [target |-> original_size, min_quality |-> MIN_QUALITY,
                                  max_quality |-> MAX_QUALITY, success |-> r.success])
       /\ cpc' = IF ShouldRetry(r.success) THEN "compress_retry" ELSE "verify"
  /\ UNCHANGED <<img, resized, original_size, crf_left, cret, crest>>
  /\ UNCHANGED <<wvars, rvars, mvars, svars, nvars>>

\* The retry: compress_to_target_size(img, output_path, original_size,
\* min_quality=MIN_QUALITY, max_quality=min(MAX_QUALITY, 50))
convert_compress_retry ==
  /\ cpc = "compress_retry"
  /\ Compress(original_size, MIN_QUALITY, NarrowedMax, "verify", "verify")
  /\ UNCHANGED <<img, resized, original_size, crf_left, cret, crest>>
  /\ UNCHANGED <<wvars, rvars, mvars, svars, nvars>>

\* elif file_size > MAX_FILE_SIZE:
\* compress_to_target_size(img, output_path, MAX_FILE_SIZE, speed=speed)
convert_compress_ceiling ==
  /\ cpc = "compress_ceiling"
  /\ Compress(MAX_FILE_SIZE, MIN_QUALITY, MAX_QUALITY, "verify", "verify")
  /\ UNCHANGED <<img, resized, original_size, crf_left, cret, crest>>
  /\ UNCHANGED <<wvars, rvars, mvars, svars, nvars>>

\* with Image.open(output_path) as saved_img: ... return True; when the open
\* raises the handler returns False.
convert_verify ==
  /\ cpc = "verify"
  /\ Return(IF out_file.k = "enc" THEN "true" ELSE "false")
  /\ UNCHANGED <<img, resized, original_size, out_file, calls, crf_left, crest>>
  /\ UNCHANGED <<wvars, rvars, mvars, svars, nvars>>

NextConvert ==
  \/ convert_start
  \/ ffmpeg_open
  \/ ffmpeg_start
  \/ ffmpeg_end
  \/ ffmpeg_crf_start
  \/ ffmpeg_crf_end
  \/ ffmpeg_crf_done
  \/ convert_open
  \/ convert_resize
  \/ convert_mode
  \/ convert_speed
  \/ convert_save
  \/ convert_compress_source
  \/ convert_compress_retry
  \/ convert_compress_ceiling
  \/ convert_verify

SpecConvert == InitConvert /\ [][NextConvert]_vars

\* ===================================================== claims, SpecConvert
\* C23: one conversion calls compress_to_target_size at most twice; a second
\* call comes only after a first call that failed, has the same target, and
\* its qMax is the smaller of the configured qMax and the cap; the first call
\* uses the configured range.
C23_AtMostOneNarrowedRetry ==
  /\ Len(calls) <= 2
  /\ Len(calls) >= 1 =>
       (calls[1].min_quality = MIN_QUALITY /\ calls[1].max_quality = MAX_QUALITY)
  /\ Len(calls) = 2 =>
       /\ ~calls[1].success
       /\ calls[2].target = calls[1].target
       /\ calls[2].max_quality <= MAX_QUALITY
       /\ calls[2].max_quality <= RetryCap
       /\ calls[2].max_quality \in {MAX_QUALITY, RetryCap}

\* A conversion has returned True after a retry that succeeded.
C23_Witness ==
  /\ cpc = "done"
  /\ cret = "true"
  /\ Len(calls) = 2
  /\ ~calls[1].success
  /\ calls[2].success

\* |a - b|
Dist(a, b) == IF a >= b THEN a - b ELSE b - a

\* The raster r is the source s scaled to the target short edge: its short
\* edge is the target and its long edge is the long edge of s times
\* target / short edge of s, each within one pixel.
ScaledToTarget(s, r) ==
  /\ Dist(ShortEdge(r), TARGET_SHORT_EDGE) <= 1
  /\ Dist(LongEdge(r) * ShortEdge(s), LongEdge(s) * TARGET_SHORT_EDGE) <= ShortEdge(s)

\* C24: when a conversion has returned True, the encoded raster is the source
\* scaled to the target short edge (each edge within one pixel) if the short
\* edge of the source is above the trigger threshold, and has the dimensions
\* of the source otherwise.
C24_ResizeToTargetShortEdge ==
  (cpc = "done" /\ cret = "true" /\ out_file.k = "enc") =>
    IF ShortEdge(src) > MIN_SHORT_EDGE
    THEN ScaledToTarget(src, out_file)
    ELSE out_file.w = src.w /\ out_file.h = src.h

\* C25: the raster handed to the encoder (the first save of the Pillow path)
\* has the layout RGB or RGBA, and it has an alpha channel if and only if the
\* source raster had one.
C25_LayoutNormalizedAlphaKept ==
  cpc = "save" =>
    /\ img.mode \in {"RGB", "RGBA"}
    /\ HasAlpha(img.mode) <=> HasAlpha(src.mode)

\* C28: output_path never holds a partially written file, with the Pillow
\* backend and with the ffmpeg backend: every write of it is a rename of a
\* complete, verified temporary file.
C28_DestinationNeverPartial ==
  out_file.k # "partial"

\* C29: when a conversion has returned True after a call of
\* compress_to_target_size that reported success, the file at output_path is
\* within MAX_FILE_SIZE, also when the raster was resized and its encoding was
\* larger than the source.
C29_CompressedWithinCeiling ==
  (cpc = "done" /\ cret = "true" /\ calls # <<>> /\ calls[Len(calls)].success) =>
    (out_file.k = "enc" /\ out_file.size <= MAX_FILE_SIZE)

\* ================================================ claims, SpecRun (cont.)
\* A complete target-codec file with the content of the source f is in the
\* directory d at a path other than the path of f: in the cli the file at
\* the identifier given to the task of f, in the gui a file of the same
\* content hash.
DerivedExists(d, f) ==
  \E x \in d :
    /\ x.ext = "avif"
    /\ x.h = f.h
    /\ PathOf(x) # PathOf(f)
    /\ engine = "cli" => (f \in DOMAIN task /\ x.stem = task[f].name)

\* C27: at every state of a run, every image file the directory held when
\* the run started is still there, or a complete target-codec file derived
\* from it is in the directory at another path.
C27_NoImageLost ==
  \A f \in dir0 : f \in dirf \/ DerivedExists(dirf, f)

\* The task of f is handled as a failed result of the pool on this step.
FailedResultHandled(f) == task[f].st = "fail" /\ task'[f].st = "done_fail"

\* C30: on the step that handles the failed result of a task of the pool, the
\* source file is in the directory as it was, no file is at the path the task
\* wrote to, the stem of that path is not in used_names, and processed_count
\* grows by one.
C30_FailedTaskCleanedAndCounted ==
  [][\A f \in ConvertTasks :
       FailedResultHandled(f) =>
         /\ f \in dirf'
         /\ ~PathExists(dirf', <<OutStem(engine, task[f]), "avif">>)
         /\ OutStem(engine, task[f]) \notin used_names'
         /\ processed_count' = processed_count + 1]_vars

\* ============================================================ SpecRestart
\* A run that starts on a directory a killed run has left: the gui opens and
\* cleans (cleanup_temp_files in __init__), then either engine runs
\* process_folder.

\* The temp path of atomic_save: output_path.stem + '.tmp'
AtomicTempStem(stem) == stem \o <<".tmp">>

\* The scratch path of compress_to_target_size: output_path.stem + '_temp'
CompressTempStem(stem) == stem \o <<"_temp">>

\* The probe path of the gui's compress_to_target_size: temp_path.stem + '_test'
CompressTestStem(stem) == CompressTempStem(stem) \o <<"_test">>

\* The stems of the temp files a killed run of the engine can leave: the cli
\* writes next to the reserved identifier, the gui next to its working name.
LeftoverStems(e) ==
  IF e = "cli"
  THEN {AtomicTempStem(FirstId), CompressTempStem(FirstId)}
  ELSE {WorkStem(NoName), AtomicTempStem(WorkStem(NoName)),
        CompressTestStem(WorkStem(NoName))}

\* The temp files: complete or cut short by the kill (Image.open raises)
LeftoverFiles(e) ==
  [stem : LeftoverStems(e), ext : {"avif"}, big : BOOLEAN,
   res : {"ok", "bad"}, h : {FirstId}]

\* Images of the user whose names hold the text _temp or _test
LookalikeFiles ==
  [stem : {<<"photo1", "_test">>, <<"_temp", "photo2">>}, ext : {"jpg"},
   big : {FALSE}, res : {"ok"}, h : {FirstId}]

\* The directories over a pool of files: at most n files, one per path
RECURSIVE DirsFrom(_, _)
DirsFrom(P, n) ==
  IF n = 0 THEN {{}}
  ELSE LET prev == DirsFrom(P, n - 1)
       IN prev \cup {d \cup {f} : <<d, f>> \in
                       {x \in prev \X P : ~PathExists(x[1], PathOf(x[2]))}}

RestartDirs(e) ==
  DirsFrom(AllowedFiles(e) \cup LeftoverFiles(e) \cup LookalikeFiles, MaxFiles)

InitRestart ==
  /\ WriterIdle
  /\ MainIdle
  /\ ConvertIdle
  /\ StopIdle
  /\ NamesIdle
  /\ engine \in {"cli", "gui"}
  /\ use_multiprocessing \in BOOLEAN
  /\ dirf \in RestartDirs(engine)
  /\ dir0 = dirf
  /\ rpc = IF engine = "gui" THEN "startup" ELSE "scan"
  /\ used_names = {}
  /\ task = <<>>
  /\ should_stop = FALSE
  /\ stopped_running = {}
  /\ processed_count = 0

\* '_temp' in file.stem
HasText(stem, text) == \E i \in 1..Len(stem) : stem[i] = text

\* file.suffix == '.tmp' or '_temp' in file.stem or '_test' in file.stem
CleanupMatches(f) ==
  f.ext = "tmp" \/ HasText(f.stem, "_temp") \/ HasText(f.stem, "_test")

\* cleanup_temp_files: every matching file of the folder is deleted.
cleanup_temp_files ==
  /\ engine = "gui"
  /\ rpc = "startup"
  /\ dirf' = {f \in dirf : ~CleanupMatches(f)}
  /\ rpc' = "scan"
  /\ UNCHANGED <<engine, use_multiprocessing, should_stop, stopped_running, processed_count,
                 dir0, used_names, task>>
  /\ UNCHANGED wvars
  /\ UNCHANGED cvars
  /\ UNCHANGED svars
  /\ UNCHANGED nvars
  /\ UNCHANGED mvars

NextRestart ==
  \/ cleanup_temp_files
  \/ NextRun

SpecRestart == InitRestart /\ [][NextRestart]_vars

\* ===================================================== claims, SpecRestart
\* The temp files of a killed run the directory held when the run started
Leftovers == dir0 \cap LeftoverFiles(engine)

\* C31: a temp file a killed run has left in the directory is never a task
\* of the run: it is neither converted as a source nor renamed to a canonical
\* identifier.
C31_LeftoversNeverTasks ==
  \A f \in Leftovers : f \notin DOMAIN task

\* The files the temp protocol of either engine creates
ProtocolTempFiles == LeftoverFiles("cli") \cup LeftoverFiles("gui")

\* C38: every file the start-up cleanup of the gui deletes is a temp file of
\* the atomic writer, the compressor or the orchestrator; no other image of
\* the folder is deleted by it.
C38_CleanupDeletesOnlyTempFiles ==
  [][(rpc = "startup" /\ rpc' = "scan") =>
       \A f \in dirf \ dirf' : f \in ProtocolTempFiles]_vars

\* ============================================== claims, SpecWriter (cont.)
\* The encoder's output size never shrinks with quality.
NonDecreasing == \A a, b \in Qualities : a <= b => sizeOf[a] <= sizeOf[b]

\* C32: with an encoder whose size is non-decreasing in quality and whose
\* operations do not fail, compress_to_target_size reports success with the
\* largest quality of [qMin, qMax] that meets the ceiling, written to the
\* destination, whenever some quality of the range meets it, and reports
\* failure exactly when the encoding at qMin exceeds the ceiling.
C32_LargestFittingQualityNonDecreasing ==
  (entry = "compress" /\ pc = "done" /\ NonDecreasing /\ ~faulted) =>
     /\ Fitting # {} => /\ ret = "true"
                        /\ best_quality \in Fitting
                        /\ \A q \in Fitting : q <= best_quality
                        /\ dest = Enc(best_quality)
     /\ ret = "false" <=> sizeOf[min_quality] > target_size

\* C32 witness: a finished fault-free search over three qualities with a
\* strictly growing encoder that succeeded at a quality strictly inside the
\* range, the one above it being over the ceiling.
C32_Witness ==
  /\ entry = "compress" /\ pc = "done" /\ NonDecreasing /\ ~faulted
  /\ ret = "true"
  /\ min_quality < best_quality /\ best_quality < max_quality
  /\ sizeOf[best_quality] < sizeOf[best_quality + 1]
  /\ sizeOf[best_quality + 1] > target_size

\* floor(log2(n)) for n >= 1
RECURSIVE Log2Floor(_)
Log2Floor(n) == IF n <= 1 THEN 0 ELSE 1 + Log2Floor(n \div 2)

\* The number of probes the claim allows for the range of the call
ProbeBound == Log2Floor(max_quality - min_quality + 1) + 1

\* C33: in every call of compress_to_target_size, whatever the encoder does
\* and whichever probes raise, the number of probes never exceeds
\* floor(log2(qMax - qMin + 1)) + 1, the search loop is left once no quality
\* remains to probe, and the call never ends with an exception.
C33_SearchBoundedNeverRaises ==
  entry = "compress" =>
     /\ probes <= ProbeBound
     /\ (pc = "c_loop" /\ probes = ProbeBound) => left > right
     /\ ret # "raised"

\* ================================================ claims, SpecRun (cont. 2)
\* The task of f ends on this step with the file deleted as a duplicate.
DiscardedAsDuplicate(f) == task[f].st # "deleted" /\ task'[f].st = "deleted"

\* C34: in a gui run (content-derived names), on the step that deletes a
\* file as a duplicate the directory holds, at the hash name of the file, a
\* file of the same content.
C34_DuplicateOnlyOfSameContent ==
  [][\A f \in DOMAIN task :
       DiscardedAsDuplicate(f) =>
         \E g \in dirf : PathOf(g) = <<f.h, "avif">> /\ g.h = f.h]_vars

\* ================================================ claims, SpecRestart (cont.)
\* No task is in the hands of a worker: the pool has drained.
PoolDrained == InState({"queued", "running"}) = {}

\* The working path of the task of f holds a file.
WorkingFileLeft(f) == PathExists(dirf, <<WorkStem(task[f].name), "avif">>)

MaxTasks == 3       \* conversion tasks of the folder

\* The state after `self.executor = ProcessPoolExecutor(...)`, before the
\* first iteration of the submission loop (use_multiprocessing and
\* len(tasks) > 1).
InitStop ==
  /\ WriterIdle
  /\ RunIdle
  /\ MainIdle
  /\ ConvertIdle
  /\ NamesIdle
  /\ opc = "loop"
  /\ hpc = "idle"
  /\ stop_flag = FALSE
  /\ executor = "live"
  /\ todo \in 2..MaxTasks
  /\ futures = 0
  /\ collected = 0
  /\ exc = "none"
  /\ run_result = "none"

stoprest == <<wvars, rvars, mvars, cvars, nvars>>

\* The exception of `self.executor.<method>(...)`: AttributeError when the
\* attribute is None
CallOnExecutor(e) == IF e = "none" THEN "AttributeError" ELSE "none"

\* The exception of self.executor.submit(...): AttributeError on None,
\* RuntimeError on an executor that was shut down
SubmitRaises(e) ==
  IF e = "shut" THEN "RuntimeError" ELSE CallOnExecutor(e)

\* for ... in tasks: if self.should_stop: break
submit_check ==
  /\ opc = "loop"
  /\ opc' = IF todo = 0 \/ stop_flag THEN "collect" ELSE "submit"
  /\ UNCHANGED <<hpc, stop_flag, executor, todo, futures, collected, exc, run_result>>
  /\ UNCHANGED stoprest

\* future = self.executor.submit(convert_image_worker, ...): an exception
\* leaves the try block for its finally clause.
submit_task ==
  /\ opc = "submit"
  /\ IF SubmitRaises(executor) = "none"
     THEN /\ futures' = futures + 1
          /\ todo' = todo - 1
          /\ opc' = "loop"
          /\ UNCHANGED exc
     ELSE /\ exc' = SubmitRaises(executor)
          /\ opc' = "finally"
          /\ UNCHANGED <<futures, todo>>
  /\ UNCHANGED <<hpc, stop_flag, executor, collected, run_result>>
  /\ UNCHANGED stoprest

\* for future in as_completed(...): if self.should_stop: cancel and break;
\* otherwise the result of one future is handled, every exception of
\* future.result() being caught.
collect_result ==
  /\ opc = "collect"
  /\ IF collected = futures \/ stop_flag
     THEN /\ opc' = "finally"
          /\ UNCHANGED collected
     ELSE /\ collected' = collected + 1
          /\ UNCHANGED opc
  /\ UNCHANGED <<hpc, stop_flag, executor, todo, futures, exc, run_result>>
  /\ UNCHANGED stoprest

\* finally: if self.executor:
finally_check ==
  /\ opc = "finally"
  /\ opc' = IF executor = "none" THEN "return" ELSE "shutdown"
  /\ UNCHANGED <<hpc, stop_flag, executor, todo, futures, collected, exc, run_result>>
  /\ UNCHANGED stoprest

\* self.executor.shutdown(wait=True); self.executor = None: the attribute is
\* read again, an exception raised here replaces the pending one.
finally_shutdown ==
  /\ opc = "shutdown"
  /\ IF CallOnExecutor(executor) = "none"
     THEN /\ executor' = "none"
          /\ UNCHANGED exc
     ELSE /\ exc' = CallOnExecutor(executor)
          /\ UNCHANGED executor
  /\ opc' = "return"
  /\ UNCHANGED <<hpc, stop_flag, todo, futures, collected, run_result>>
  /\ UNCHANGED stoprest

\* run_conversion after process_folder: the except clause reports an error,
\* otherwise should_stop decides between "stopped" and "completed"; the
\* finally clause clears the executor and is_running.
run_conversion_end ==
  /\ opc = "return"
  /\ run_result' = IF exc # "none" THEN "error"
                ELSE IF stop_flag THEN "stopped" ELSE "completed"
  /\ executor' = "none"
  /\ opc' = "ended"
  /\ UNCHANGED <<hpc, stop_flag, todo, futures, collected, exc>>
  /\ UNCHANGED stoprest

\* stop_conversion is called while the submission loop or the collection
\* loop runs: self.should_stop = True
stop_set_flag ==
  /\ hpc = "idle"
  /\ opc \in {"loop", "submit", "collect"}
  /\ stop_flag' = TRUE
  /\ hpc' = "check"
  /\ UNCHANGED <<opc, executor, todo, futures, collected, exc, run_result>>
  /\ UNCHANGED stoprest

\* the futures that are not done are cancelled; if self.executor:
stop_check_executor ==
  /\ hpc = "check"
  /\ hpc' = IF executor = "none" THEN "done" ELSE "shutdown"
  /\ UNCHANGED <<opc, stop_flag, executor, todo, futures, collected, exc, run_result>>
  /\ UNCHANGED stoprest

\* self.executor.shutdown(wait=False), inside try: an AttributeError is
\* caught and logged.
stop_shutdown ==
  /\ hpc = "shutdown"
  /\ IF CallOnExecutor(executor) = "none"
     THEN /\ executor' = "shut"
          /\ hpc' = "clear"
     ELSE /\ hpc' = "done"
          /\ UNCHANGED executor
  /\ UNCHANGED <<opc, stop_flag, todo, futures, collected, exc, run_result>>
  /\ UNCHANGED stoprest

\* self.executor = None; self.active_futures = []
stop_clear ==
  /\ hpc = "clear"
  /\ executor' = "none"
  /\ hpc' = "done"
  /\ UNCHANGED <<opc, stop_flag, todo, futures, collected, exc, run_result>>
  /\ UNCHANGED stoprest

NextStop ==
  \/ submit_check
  \/ submit_task
  \/ collect_result
  \/ finally_check
  \/ finally_shutdown
  \/ run_conversion_end
  \/ stop_set_flag
  \/ stop_check_executor
  \/ stop_shutdown
  \/ stop_clear

SpecStop == InitStop /\ [][NextStop]_vars

\* ========================================================= claims, SpecStop
\* C35: whenever stop_conversion is called during the submission loop or the
\* collection loop, no exception leaves process_folder, and the run ends as
\* stopped, not as an error; no submit reaches an executor that was shut
\* down or cleared.
C35_StopNeverRaises ==
  stop_flag =>
    /\ exc = "none"
    /\ run_result \in {"none", "stopped"}
    /\ opc = "submit" => executor = "live"

\* =============================================================== SpecNames
\* One identifier: the engine is configured with an identifier length, a
\* statement of the engine produces an identifier, and the scan of the next
\* run tests whether the stem is canonical.

MaxNameLength == 4     \* the largest configured identifier length

\* The literal length of generate_random_name(8), scaled down
LiteralLength == 3

\* The number of digits of hashlib.md5(...).hexdigest(), scaled down
DigestLength == 3

\* The statements that ask for an identifier: the cli's reservation for a
\* conversion task and its rename loop in process_folder, the worker
\* function, and process_image_file; the gui's hash of the content.
Sites(e) ==
  IF e = "cli" THEN {"process_folder", "process_image_file_worker", "process_image_file"}
  ELSE {"generate_hash_name"}

InitNames ==
  /\ WriterIdle
  /\ RunIdle
  /\ MainIdle
  /\ ConvertIdle
  /\ StopIdle
  /\ npc = "config"
  /\ nengine \in {"cli", "gui"}
  /\ RANDOM_NAME_LENGTH = 0
  /\ site = "none"
  /\ identifier = <<>>
  /\ accepted = FALSE

namesrest == <<wvars, rvars, mvars, cvars, svars>>

\* RANDOM_NAME_LENGTH = int(CONFIG.get('randomNameLength', 8)), in the gui
\* settings['hashNameLength']
load_config ==
  /\ npc = "config"
  /\ RANDOM_NAME_LENGTH' \in 1..MaxNameLength
  /\ site' \in Sites(nengine)
  /\ npc' = "allocate"
  /\ UNCHANGED <<nengine, identifier, accepted>>
  /\ UNCHANGED namesrest

\* The length argument of generate_random_name at the statement: the
\* default (None: RANDOM_NAME_LENGTH), or the literal of process_image_file
LengthArgument(s, configured) ==
  IF s = "process_image_file" THEN LiteralLength ELSE configured

\* The values generate_random_name(length) can return
generate_random_name(length) == SeqsOf(NameChars, length)

\* The values hashlib.md5(content).hexdigest() can have
Digests == SeqsOf(HexChars, DigestLength)

\* file_hash[:length]
generate_hash_name(file_hash, length) ==
  SubSeq(file_hash, 1, IF length < Len(file_hash) THEN length ELSE Len(file_hash))

\* The identifier is identifier.
allocate_name ==
  /\ npc = "allocate"
  /\ IF nengine = "cli"
     THEN identifier' \in generate_random_name(LengthArgument(site, RANDOM_NAME_LENGTH))
     ELSE \E file_hash \in Digests :
            identifier' = generate_hash_name(file_hash, RANDOM_NAME_LENGTH)
  /\ npc' = "classify"
  /\ UNCHANGED <<nengine, RANDOM_NAME_LENGTH, site, accepted>>
  /\ UNCHANGED namesrest

\* is_8digit_random(name) under a configured length
is_8digit_random_of(name, length) ==
  /\ Len(name) = length
  /\ \A i \in 1..Len(name) : name[i] \in NameChars

\* is_hash_name(name) under a configured length
is_hash_name_of(name, length) ==
  /\ Len(name) = length
  /\ \A i \in 1..Len(name) : Lower(name[i]) \in HexChars

\* The next run, same engine and configuration, tests the stem.
classify_name ==
  /\ npc = "classify"
  /\ accepted' = IF nengine = "cli"
                 THEN is_8digit_random_of(identifier, RANDOM_NAME_LENGTH)
                 ELSE is_hash_name_of(identifier, RANDOM_NAME_LENGTH)
  /\ npc' = "done"
  /\ UNCHANGED <<nengine, RANDOM_NAME_LENGTH, site, identifier>>
  /\ UNCHANGED namesrest

NextNames ==
  \/ load_config
  \/ allocate_name
  \/ classify_name

SpecNames == InitNames /\ [][NextNames]_vars

\* ======================================================== claims, SpecNames
\* C37: for every configured identifier length, an identifier produced by a
\* statement of an engine is accepted as canonical by the name test of the
\* same engine under the same configuration.
C37_ProducedIdentifierIsCanonical ==
  npc = "done" => accepted

====
